---- MODULE Spec2Model ----
(***************************************************************************)
(* A state-machine model of the admin API route handlers:                  *)
(*   - export schedules   GET | POST | PATCH | DELETE                     *)
(*     /api/admin/users/exports/schedule                                  *)
(*   - filter presets     GET | PATCH | DELETE                            *)
(*     /api/admin/filter-presets/[id]                                     *)
(*   - report generation  POST /api/admin/reports/[id]/generate           *)
(*                                                                         *)
(* A handler is an async function: it runs without interruption from one   *)
(* `await` to the next, and other requests may run in between.  Each       *)
(* action below is one such segment: the completion of the awaited call    *)
(* followed by the synchronous code up to the next await or the response.  *)
(* Any awaited call may throw; the handler's catch turns that into a 500.  *)
(***************************************************************************)
EXTENDS Integers, Sequences, FiniteSets, TLC

VARIABLES
    schedules,         \* prisma.exportSchedule: id -> row
    executions,        \* prisma.exportScheduleExecution: set of rows
    presets,           \* prisma.filter_presets: id -> row
    reports,           \* prisma.report: id -> row
    reportExecutions,  \* prisma.reportExecution: id -> row
    now,               \* the clock read by new Date()
    req,               \* the requests in flight: slot -> handler activation
    call,              \* the call of a function on its own: name, arguments, result
    views,             \* a rendered SavedViewsButtons: props, badges, onViewChange calls
    card,              \* a rendered QuickStatsCard: props, refresh button, onRefresh calls
    hook,              \* a component using useFilterState: users, filters, stats
    form               \* a rendered ClientFormModal: its state and its submission

serverVars == <<schedules, executions, presets, reports, reportExecutions, now, req>>

clientVars == <<call, views, card, hook, form>>

vars == <<schedules, executions, presets, reports, reportExecutions, now, req,
          call, views, card, hook, form>>

\* no function has been called on its own
NoCall == [fn |-> "none"]

\* a component that has not been rendered
NotMounted == [mounted |-> FALSE]

\* the state of the code outside the route handlers while the handlers run
ClientIdle ==
    /\ call = NoCall
    /\ views = NotMounted
    /\ card = NotMounted
    /\ hook = NotMounted
    /\ form = NotMounted

(***************************************************************************)
(* Bounds of the model.                                                    *)
(***************************************************************************)
NumReq == 2      \* request slots: handler activations that may interleave
MaxClock == 2    \* new Date() is read at most this many times in a run

Slots == 1..NumReq

(***************************************************************************)
(* JavaScript values, tagged with their type so that `||`, `!x` and        *)
(* `=== undefined` can be computed as the language computes them.          *)
(***************************************************************************)
Undef == <<"undefined">>
Null == <<"null">>
S(s) == <<"string", s>>
N(n) == <<"number", n>>
B(b) == <<"boolean", b>>
Arr(a) == <<"array", a>>
T(chars) == <<"text", chars>>    \* a string kept as the sequence of its characters

Truthy(v) ==
    CASE v[1] = "undefined" -> FALSE
      [] v[1] = "null" -> FALSE
      [] v[1] = "string" -> v[2] # ""
      [] v[1] = "text" -> v[2] # <<>>
      [] v[1] = "number" -> v[2] # 0
      [] v[1] = "boolean" -> v[2]
      [] OTHER -> TRUE

\* a || b
OrElse(a, b) == IF Truthy(a) THEN a ELSE b

\* const { x = d } = body : the default applies to undefined only
Default(v, d) == IF v = Undef THEN d ELSE v

(***************************************************************************)
(* Users, sessions, permissions, rate limiter: the collaborators.          *)
(***************************************************************************)
NoUser == "nouser"
NoTenant == "notenant"
Users == {"u1", "u2", "u3"}
Sessions == Users \cup {NoUser}

\* prisma.user.findUnique({ where: { id }, select: { tenantId: true } })
UserTenant(u) ==
    CASE u = "u1" -> "t1"
      [] u = "u2" -> "t1"
      [] OTHER -> NoTenant

\* hasPermission(userId, permission): u1 and u3 hold every permission, u2 and
\* a request without a user hold none
hasPermission(u, permission) == u \in {"u1", "u3"}

\* request.headers.get('x-forwarded-for'): absent, or an address
NoHeader == "noheader"
Headers == {NoHeader, "10.0.0.2"}

\* request.headers.get('x-forwarded-for') || 'anonymous'
Identifier(header) == IF header = NoHeader THEN "anonymous" ELSE header

\* rateLimit(identifier): the identifiers that are over their limit
Exceeded == {"10.0.0.2"}
rateLimit(identifier) == [success |-> identifier \notin Exceeded]

(***************************************************************************)
(* Request slots.                                                          *)
(***************************************************************************)
None == "none"

\* a local that is not assigned yet is NoValue, an assigned one is Some(value)
NoValue == <<>>
Some(x) == <<x>>

IdleReq ==
    [ kind |-> "idle", pc |-> "idle",
      header |-> NoHeader,   \* x-forwarded-for
      user |-> NoUser,       \* session.user.id / ctx.userId / context.userId
      id |-> 0,              \* params.id
      tenantId |-> None,     \* user.tenantId
      body |-> NoValue,      \* await request.json()
      ids |-> <<>>,          \* searchParams.get('ids')?.split(',') || []
      existing |-> NoValue,  \* existingSchedules / preset / report found
      data |-> NoValue,      \* updateData / execution
      status |-> 0,          \* the response's HTTP status, 0: no response yet
      result |-> NoValue,    \* the response's payload, where a claim reads it
      threw |-> <<>>,        \* the steps at which a call of this request threw
      read |-> FALSE,        \* a store read was performed for this request
      wrote |-> FALSE ]      \* a store write was performed for this request

Respond(r, code) ==
    req' = [req EXCEPT ![r].pc = "done", ![r].status = code]

\* the message of a handler's catch block
FailedMessage(kind) ==
    CASE kind = "ReportPOST" -> "Failed to generate report"
      [] kind = "ScheduleGET" -> "Failed to fetch export schedules"
      [] kind = "SchedulePOST" -> "Failed to create export schedule"
      [] kind = "SchedulePATCH" -> "Failed to update export schedules"
      [] kind = "ScheduleDELETE" -> "Failed to delete export schedules"
      [] kind = "PresetGET" -> "Failed to fetch preset"
      [] kind = "PresetPATCH" -> "Failed to update preset"
      [] kind = "PresetDELETE" -> "Failed to delete preset"

\* error.message of an exception a collaborator throws
ErrorMessage == "error"

\* the catch block without its return: the exception leaves the handler and
\* the handler gives no response
CaughtReq_Rethrown(q) ==
    [q EXCEPT !.pc = "done", !.status = 0, !.result = NoValue]

\* catch (error) { console.error(...); return ...{ error: '...' }, { status: 500 } }
CaughtReq(q) ==
    [q EXCEPT !.pc = "done", !.status = 500,
              !.result = Some([error |-> FailedMessage(q.kind)])]

\* the request q after the call of its current step threw inside the try
Raised(q) == CaughtReq([q EXCEPT !.threw = Append(@, q.pc)])

Raise(r) == req' = [req EXCEPT ![r] = Raised(req[r])]

\* an exception thrown on reaches the outer catch
Caught(r) == req' = [req EXCEPT ![r] = CaughtReq(req[r])]

\* the first await of each handler
FirstPc(kind) ==
    CASE kind \in {"ScheduleGET", "SchedulePOST", "SchedulePATCH", "ScheduleDELETE"} -> "rateLimit"
      [] kind = "ReportPOST" -> "rateLimit"
      [] OTHER -> "context"

\* a request arrives: its handler, its x-forwarded-for header, its session
Arrive(r, kinds, headers, sessions) ==
    /\ req[r].pc = "idle"
    /\ \E kind \in kinds : \E header \in headers : \E user \in sessions :
         req' = [req EXCEPT ![r] = [IdleReq EXCEPT !.kind = kind, !.pc = FirstPc(kind),
                                                   !.header = header, !.user = user]]
    /\ UNCHANGED <<schedules, executions, presets, reports, reportExecutions, now>>
    /\ UNCHANGED clientVars

\* the slot's response has been sent: the activation is gone
Finish(r) ==
    /\ req[r].pc = "done"
    /\ req' = [req EXCEPT ![r] = IdleReq]
    /\ UNCHANGED <<schedules, executions, presets, reports, reportExecutions, now>>
    /\ UNCHANGED clientVars

(***************************************************************************)
(* Export schedules: /api/admin/users/exports/schedule                     *)
(***************************************************************************)
ScheduleLimit == 20

ScheduleKinds == {"ScheduleGET", "SchedulePOST", "SchedulePATCH", "ScheduleDELETE"}

\* /^[^\s@]+@[^\s@]+\.[^\s@]+$/ over a string given as its characters
NotSpaceAt(e, from, to) ==
    /\ from <= to
    /\ \A k \in from..to : e[k] \notin {" ", "@"}

emailRegexTest(e) ==
    \E i \in 1..Len(e) : \E j \in 1..Len(e) :
        /\ e[i] = "@"
        /\ e[j] = "."
        /\ NotSpaceAt(e, 1, i - 1)
        /\ NotSpaceAt(e, i + 1, j - 1)
        /\ NotSpaceAt(e, j + 1, Len(e))

GoodEmail == <<"a", "@", "b", ".", "c">>
DottedEmail == <<"a", ".", "b", "@", "c", ".", "d", ".", "e">>
NoDotEmail == <<"a", "@", "b">>
TwoAtEmail == <<"a", "@", "b", "@", "c", ".", "d">>
SpacedEmail == <<"a", " ", "@", "b", ".", "c">>

\* request bodies of POST: two that pass validation, the others fail one rule
PlainBody ==
    [ name |-> S("weekly"), description |-> Undef, frequency |-> S("weekly"),
      format |-> S("csv"), recipients |-> Arr(<<GoodEmail>>),
      dayOfWeek |-> Undef, dayOfMonth |-> Undef, time |-> Undef,
      emailSubject |-> Undef, emailBody |-> Undef, filterPresetId |-> Undef,
      isActive |-> Undef ]

FullBody ==
    [ name |-> S("monthly"), description |-> S("d"), frequency |-> S("monthly"),
      format |-> S("pdf"), recipients |-> Arr(<<GoodEmail, DottedEmail>>),
      dayOfWeek |-> N(0), dayOfMonth |-> N(15), time |-> S("17:30"),
      emailSubject |-> S("s"), emailBody |-> S("b"), filterPresetId |-> S("p1"),
      isActive |-> B(FALSE) ]

ValidBodies == {PlainBody, FullBody}

InvalidBodies ==
    { [PlainBody EXCEPT !.name = Undef],
      [PlainBody EXCEPT !.name = S("")],
      [PlainBody EXCEPT !.frequency = Undef],
      [PlainBody EXCEPT !.format = Undef],
      [PlainBody EXCEPT !.format = S("xml")],
      [PlainBody EXCEPT !.recipients = Undef],
      [PlainBody EXCEPT !.recipients = Arr(<<>>)],
      [PlainBody EXCEPT !.recipients = Arr(<<GoodEmail, NoDotEmail>>)],
      [PlainBody EXCEPT !.recipients = Arr(<<TwoAtEmail, SpacedEmail>>)] }

PostBodies == ValidBodies \cup InvalidBodies

\* the required-fields test without its recipients.length === 0
MissingRequired_NoLength(body) ==
    \/ ~Truthy(body.name)
    \/ ~Truthy(body.frequency)
    \/ ~Truthy(body.format)
    \/ ~Truthy(body.recipients)

\* if (!name || !frequency || !format || !recipients || recipients.length === 0)
MissingRequired(body) ==
    \/ ~Truthy(body.name)
    \/ ~Truthy(body.frequency)
    \/ ~Truthy(body.format)
    \/ ~Truthy(body.recipients)
    \/ Len(body.recipients[2]) = 0

\* if (!['csv', 'xlsx', 'json', 'pdf'].includes(format))
InvalidFormat(body) == body.format \notin {S("csv"), S("xlsx"), S("json"), S("pdf")}

\* if (recipients.some((email) => !emailRegex.test(email)))
InvalidRecipients(body) ==
    \E k \in 1..Len(body.recipients[2]) : ~emailRegexTest(body.recipients[2][k])

\* the three validations of POST, in the order of the code
FailsValidation(body) ==
    \/ MissingRequired(body)
    \/ InvalidFormat(body)
    \/ InvalidRecipients(body)

\* prisma.exportSchedule.count({ where: { tenantId } })
CountSchedules(t) == Cardinality({i \in DOMAIN schedules : schedules[i].tenantId = t})

\* crypto.getRandomUUID(): an id no row has or had.  (The Web Crypto method is
\* randomUUID; where getRandomUUID is not defined the call throws, which is
\* the throwing outcome of the step that evaluates it.)
Max(set) == CHOOSE m \in set : \A k \in set : k <= m

FreshScheduleId ==
    1 + Max({0} \cup DOMAIN schedules \cup {e.scheduleId : e \in executions})

\* the data of prisma.exportSchedule.create
ScheduleData(body, id, tenantId, userId, date) ==
    [ id |-> id,
      name |-> body.name,
      description |-> body.description,
      frequency |-> body.frequency,
      format |-> body.format,
      recipients |-> body.recipients,
      dayOfWeek |-> OrElse(body.dayOfWeek, Null),
      dayOfMonth |-> OrElse(body.dayOfMonth, Null),
      time |-> OrElse(body.time, S("09:00")),
      emailSubject |-> body.emailSubject,
      emailBody |-> body.emailBody,
      filterPresetId |-> OrElse(body.filterPresetId, Null),
      isActive |-> Default(body.isActive, B(TRUE)),
      tenantId |-> tenantId,
      userId |-> userId,
      createdAt |-> date,
      updatedAt |-> date ]

\* the rows the store holds before the run: created by earlier POSTs
SeedSchedule(i, t, u) == ScheduleData(PlainBody, i, t, u, 0)

\* data: { isActive: { not: true } }
NotTrue == B(FALSE)

\* request bodies of PATCH
PatchBodies ==
    { [action |-> S("toggleActive"), scheduleIds |-> Arr(<<1, 2>>)],
      [action |-> S("toggleActive"), scheduleIds |-> Undef],
      [action |-> S("enable"), scheduleIds |-> Arr(<<2>>)] }

\* ?ids=... of DELETE: absent, or a comma-separated list
DeleteIds == {Undef, Arr(<<1, 2>>)}

\* searchParams.get('ids')?.split(',') || []
SplitIds(q) == IF q = Undef THEN <<>> ELSE q[2]

Range(seq) == {seq[k] : k \in 1..Len(seq)}

UNCHANGED_Other == UNCHANGED <<presets, reports, reportExecutions, clientVars>>

(* ---- the steps the four schedule handlers share ---- *)

\* const { success } = await rateLimit(identifier); if (!success) 429
ScheduleRateLimit(r) ==
    /\ req[r].kind \in ScheduleKinds
    /\ req[r].pc = "rateLimit"
    /\ IF ~rateLimit(Identifier(req[r].header)).success
         THEN Respond(r, 429)
         ELSE req' = [req EXCEPT ![r].pc = "session"]
    /\ UNCHANGED <<schedules, executions, now>>
    /\ UNCHANGED_Other

\* the session step without its check
ScheduleSession_Unchecked(r) ==
    /\ req[r].kind \in ScheduleKinds
    /\ req[r].pc = "session"
    /\ req' = [req EXCEPT ![r].pc = "permission"]
    /\ UNCHANGED <<schedules, executions, now>>
    /\ UNCHANGED_Other

\* const session = await getServerSession(authOptions); if (!session?.user?.id) 401
ScheduleSession(r) ==
    /\ req[r].kind \in ScheduleKinds
    /\ req[r].pc = "session"
    /\ IF req[r].user = NoUser
         THEN Respond(r, 401)
         ELSE req' = [req EXCEPT ![r].pc = "permission"]
    /\ UNCHANGED <<schedules, executions, now>>
    /\ UNCHANGED_Other

\* const hasAccess = await hasPermission(session.user.id, 'admin:users:export')
\* if (!hasAccess) 403; then on to the handler's own code
SchedulePermission(r) ==
    /\ req[r].kind \in ScheduleKinds
    /\ req[r].pc = "permission"
    /\ IF ~hasPermission(req[r].user, "admin:users:export")
         THEN Respond(r, 403)
         ELSE CASE req[r].kind \in {"ScheduleGET", "SchedulePOST"} ->
                     req' = [req EXCEPT ![r].pc = "findUser"]
                [] req[r].kind = "SchedulePATCH" ->
                     req' = [req EXCEPT ![r].pc = "json"]
                [] OTHER ->
                     \* DELETE: the ids of the URL, read without an await
                     \E q \in DeleteIds :
                         IF Len(SplitIds(q)) = 0
                           THEN req' = [req EXCEPT ![r].pc = "done", ![r].status = 400,
                                                   ![r].ids = SplitIds(q)]
                           ELSE req' = [req EXCEPT ![r].pc = "deleteExecutions",
                                                   ![r].ids = SplitIds(q)]
    /\ UNCHANGED <<schedules, executions, now>>
    /\ UNCHANGED_Other

\* const user = await prisma.user.findUnique(...); if (!user?.tenantId) 400
ScheduleFindUser(r) ==
    /\ req[r].kind \in {"ScheduleGET", "SchedulePOST"}
    /\ req[r].pc = "findUser"
    /\ IF UserTenant(req[r].user) = NoTenant
         THEN req' = [req EXCEPT ![r].pc = "done", ![r].status = 400, ![r].read = TRUE]
         ELSE req' = [req EXCEPT ![r].pc = IF req[r].kind = "ScheduleGET"
                                             THEN "findMany" ELSE "json",
                                 ![r].tenantId = UserTenant(req[r].user),
                                 ![r].read = TRUE]
    /\ UNCHANGED <<schedules, executions, now>>
    /\ UNCHANGED_Other

(* ---- GET ---- *)

\* const schedules = await prisma.exportSchedule.findMany({ where: { tenantId } })
ScheduleGET_FindMany(r) ==
    /\ req[r].kind = "ScheduleGET"
    /\ req[r].pc = "findMany"
    /\ req' = [req EXCEPT ![r].pc = "done", ![r].status = 200,
                          ![r].result = Some({i \in DOMAIN schedules :
                                             schedules[i].tenantId = req[r].tenantId})]
    /\ UNCHANGED <<schedules, executions, now>>
    /\ UNCHANGED_Other

(* ---- POST ---- *)

\* const body = await request.json(), then the three validations
SchedulePOST_Json(r) ==
    /\ req[r].kind = "SchedulePOST"
    /\ req[r].pc = "json"
    /\ \E body \in PostBodies :
         IF FailsValidation(body)
           THEN req' = [req EXCEPT ![r].pc = "done", ![r].status = 400, ![r].body = Some(body)]
           ELSE req' = [req EXCEPT ![r].pc = "count", ![r].body = Some(body)]
    /\ UNCHANGED <<schedules, executions, now>>
    /\ UNCHANGED_Other

\* the limit test as existingSchedules > 20
SchedulePOST_Count_Above(r) ==
    /\ req[r].kind = "SchedulePOST"
    /\ req[r].pc = "count"
    /\ LET existingSchedules == CountSchedules(req[r].tenantId) IN
         IF existingSchedules > ScheduleLimit
           THEN req' = [req EXCEPT ![r].pc = "done", ![r].status = 400,
                                   ![r].existing = Some(existingSchedules)]
           ELSE req' = [req EXCEPT ![r].pc = "create",
                                   ![r].existing = Some(existingSchedules)]
    /\ UNCHANGED <<schedules, executions, now>>
    /\ UNCHANGED_Other

\* const existingSchedules = await prisma.exportSchedule.count(...)
\* if (existingSchedules >= 20) 400
SchedulePOST_Count(r) ==
    /\ req[r].kind = "SchedulePOST"
    /\ req[r].pc = "count"
    /\ LET existingSchedules == CountSchedules(req[r].tenantId) IN
         IF existingSchedules >= ScheduleLimit
           THEN req' = [req EXCEPT ![r].pc = "done", ![r].status = 400,
                                   ![r].existing = Some(existingSchedules)]
           ELSE req' = [req EXCEPT ![r].pc = "create",
                                   ![r].existing = Some(existingSchedules)]
    /\ UNCHANGED <<schedules, executions, now>>
    /\ UNCHANGED_Other

\* const schedule = await prisma.exportSchedule.create({ data: {...} }); 200
SchedulePOST_Create(r) ==
    /\ req[r].kind = "SchedulePOST"
    /\ req[r].pc = "create"
    /\ now < MaxClock
    /\ LET id == FreshScheduleId
           schedule == ScheduleData(req[r].body[1], id, req[r].tenantId, req[r].user, now + 1)
       IN  /\ schedules' = [i \in DOMAIN schedules \cup {id} |->
                               IF i = id THEN schedule ELSE schedules[i]]
           /\ req' = [req EXCEPT ![r].pc = "done", ![r].status = 200,
                                 ![r].result = Some(id), ![r].wrote = TRUE]
    /\ now' = now + 1
    /\ UNCHANGED executions
    /\ UNCHANGED_Other

(* ---- PATCH ---- *)

\* const body = await request.json(); anything but toggleActive with an array: 400
SchedulePATCH_Json(r) ==
    /\ req[r].kind = "SchedulePATCH"
    /\ req[r].pc = "json"
    /\ \E body \in PatchBodies :
         IF body.action = S("toggleActive") /\ Truthy(body.scheduleIds)
                /\ body.scheduleIds[1] = "array"
           THEN req' = [req EXCEPT ![r].pc = "updateMany", ![r].body = Some(body)]
           ELSE req' = [req EXCEPT ![r].pc = "done", ![r].status = 400, ![r].body = Some(body)]
    /\ UNCHANGED <<schedules, executions, now>>
    /\ UNCHANGED_Other

\* updateMany with the toggle logic: each row's isActive is negated
SchedulePATCH_UpdateMany_Flip(r) ==
    /\ req[r].kind = "SchedulePATCH"
    /\ req[r].pc = "updateMany"
    /\ schedules' = [i \in DOMAIN schedules |->
                        IF i \in Range(req[r].body[1].scheduleIds[2])
                          THEN [schedules[i] EXCEPT !.isActive = B(~schedules[i].isActive[2])]
                          ELSE schedules[i]]
    /\ req' = [req EXCEPT ![r].pc = "done", ![r].status = 200, ![r].wrote = TRUE]
    /\ UNCHANGED <<executions, now>>
    /\ UNCHANGED_Other

\* await prisma.exportSchedule.updateMany({ where: { id: { in: scheduleIds } },
\*                                          data: { isActive: { not: true } } })
SchedulePATCH_UpdateMany(r) ==
    /\ req[r].kind = "SchedulePATCH"
    /\ req[r].pc = "updateMany"
    /\ schedules' = [i \in DOMAIN schedules |->
                        IF i \in Range(req[r].body[1].scheduleIds[2])
                          THEN [schedules[i] EXCEPT !.isActive = NotTrue]
                          ELSE schedules[i]]
    /\ req' = [req EXCEPT ![r].pc = "done", ![r].status = 200, ![r].wrote = TRUE]
    /\ UNCHANGED <<executions, now>>
    /\ UNCHANGED_Other

(* ---- DELETE ---- *)

\* await prisma.exportScheduleExecution.deleteMany({ where: { scheduleId: { in: ids } } })
ScheduleDELETE_Executions(r) ==
    /\ req[r].kind = "ScheduleDELETE"
    /\ req[r].pc = "deleteExecutions"
    /\ executions' = {e \in executions : e.scheduleId \notin Range(req[r].ids)}
    /\ req' = [req EXCEPT ![r].pc = "deleteSchedules", ![r].wrote = TRUE]
    /\ UNCHANGED <<schedules, now>>
    /\ UNCHANGED_Other

\* const deleted = await prisma.exportSchedule.deleteMany({ where: { id: { in: ids } } })
ScheduleDELETE_Schedules(r) ==
    /\ req[r].kind = "ScheduleDELETE"
    /\ req[r].pc = "deleteSchedules"
    /\ schedules' = [i \in DOMAIN schedules \ Range(req[r].ids) |-> schedules[i]]
    /\ req' = [req EXCEPT ![r].pc = "done", ![r].status = 200,
                          ![r].result = Some(Cardinality(DOMAIN schedules \cap Range(req[r].ids)))]
    /\ UNCHANGED <<executions, now>>
    /\ UNCHANGED_Other

\* an awaited call of a schedule handler throws: the handler's catch answers 500
ScheduleThrow(r) ==
    /\ req[r].kind \in ScheduleKinds
    /\ req[r].pc \notin {"idle", "done"}
    /\ Raise(r)
    /\ UNCHANGED <<schedules, executions, now>>
    /\ UNCHANGED_Other

\* concurrent POSTs: the slots run POST handlers that interleave at their awaits
PostNext ==
    \E r \in Slots :
        \/ Arrive(r, {"SchedulePOST"}, Headers, Sessions)
        \/ ScheduleRateLimit(r)
        \/ ScheduleSession(r)
        \/ SchedulePermission(r)
        \/ ScheduleFindUser(r)
        \/ SchedulePOST_Json(r)
        \/ SchedulePOST_Count(r)
        \/ SchedulePOST_Create(r)
        \/ ScheduleThrow(r)
        \/ Finish(r)

\* the store before the run, as earlier POSTs left it: schedule 1 of the other
\* tenant t2 (of its user u9), and this tenant's schedules 2..20, one below
\* the limit
SeedSchedules ==
    [i \in 1..ScheduleLimit |-> IF i = 1 THEN SeedSchedule(i, "t2", "u9")
                                         ELSE SeedSchedule(i, "t1", "u1")]

SeedExecutions == {[id |-> i, scheduleId |-> i] : i \in {1, 2}}

ScheduleInit ==
    /\ schedules = SeedSchedules
    /\ executions = SeedExecutions

PostInit ==
    /\ ScheduleInit
    /\ presets = <<>>
    /\ reports = <<>>
    /\ reportExecutions = <<>>
    /\ now = 0
    /\ req = [r \in Slots |-> IdleReq]
    /\ ClientIdle

PostSpec == PostInit /\ [][PostNext]_vars

(***************************************************************************)
(* Filter presets: /api/admin/filter-presets/[id]                          *)
(***************************************************************************)
PresetKinds == {"PresetGET", "PresetPATCH", "PresetDELETE"}

Obj(fields) == <<"object", fields>>

\* JSON.stringify(value) and JSON.parse(text): the text of a value is the
\* value marked as text; anything else is no JSON and JSON.parse throws
JSONstringify(v) == <<"json", v>>
IsJSON(text) == text[1] = "json"
JSONparse(text) == text[2]

\* filterConfig.logic || 'AND'
FilterLogic(filterConfig) == OrElse(filterConfig[2].logic, S("AND"))

ConfigAnd == Obj([logic |-> Undef])
ConfigOr == Obj([logic |-> S("OR")])

\* the rows the store holds before the run: presets 1 (private) and 2 (public)
\* of user u1 in tenant t1
SeedPreset(id, name, isPublic) ==
    [ id |-> id, tenantId |-> "t1", createdBy |-> "u1",
      name |-> S(name), description |-> Null, isPublic |-> isPublic,
      icon |-> Null, color |-> Null,
      filterConfig |-> JSONstringify(ConfigAnd), filterLogic |-> S("AND"),
      updatedAt |-> 0 ]

SeedPresets == <<SeedPreset(1, "a", FALSE), SeedPreset(2, "b", TRUE)>>

\* params.id
PresetIds == {1, 2}

\* request bodies of PATCH
NoFields ==
    [ name |-> Undef, description |-> Undef, isPublic |-> Undef,
      icon |-> Undef, color |-> Undef, filterConfig |-> Undef ]

PresetBodies ==
    { [NoFields EXCEPT !.name = S("a")],
      [NoFields EXCEPT !.name = S("c")],
      [NoFields EXCEPT !.name = S("")],
      [NoFields EXCEPT !.isPublic = B(TRUE), !.description = S("d"),
                       !.icon = S("i"), !.color = S("c"),
                       !.filterConfig = ConfigOr],
      [NoFields EXCEPT !.filterConfig = Null] }

\* const updateData = {}; if (x !== undefined) updateData.x = x; ...
\* a field updateData does not hold is undefined
UpdateData(body, date) ==
    [ name |-> body.name,
      description |-> body.description,
      isPublic |-> body.isPublic,
      icon |-> body.icon,
      color |-> body.color,
      filterConfig |-> IF body.filterConfig # Undef
                         THEN JSONstringify(body.filterConfig) ELSE Undef,
      filterLogic |-> IF body.filterConfig # Undef
                        THEN FilterLogic(body.filterConfig) ELSE Undef,
      updatedAt |-> date ]

Updated(old, new) == IF new = Undef THEN old ELSE new

\* prisma.filter_presets.update({ where: { id }, data: updateData }) on a row
ApplyUpdate(row, data) ==
    [ row EXCEPT !.name = Updated(@, data.name),
                 !.description = Updated(@, data.description),
                 !.isPublic = IF data.isPublic = Undef THEN @ ELSE data.isPublic[2],
                 !.icon = Updated(@, data.icon),
                 !.color = Updated(@, data.color),
                 !.filterConfig = Updated(@, data.filterConfig),
                 !.filterLogic = Updated(@, data.filterLogic),
                 !.updatedAt = data.updatedAt ]

\* prisma.filter_presets.findFirst({ where: { tenantId, name, createdBy, NOT: { id } } })
FindFirstSameName(tenantId, name, createdBy, id) ==
    {i \in DOMAIN presets :
        /\ presets[i].tenantId = tenantId
        /\ presets[i].name = name
        /\ presets[i].createdBy = createdBy
        /\ i # id}

\* { ...preset, filterConfig: JSON.parse(preset.filterConfig) }
PresetPayload(row) == [row EXCEPT !.filterConfig = JSONparse(@)]

\* removing a row from a store
Without(store, id) == [i \in DOMAIN store \ {id} |-> store[i]]

UNCHANGED_NotPresets ==
    UNCHANGED <<schedules, executions, reports, reportExecutions, clientVars>>

\* const ctx = requireTenantContext(); if (!ctx?.userId) 401;
\* then findUnique({ where: { id: params.id } }) is called
PresetContext(r) ==
    /\ req[r].kind \in PresetKinds
    /\ req[r].pc = "context"
    /\ IF req[r].user = NoUser
         THEN Respond(r, 401)
         ELSE \E id \in PresetIds :
                 req' = [req EXCEPT ![r].pc = "findUnique", ![r].id = id]
    /\ UNCHANGED <<presets, now>>
    /\ UNCHANGED_NotPresets

(* ---- GET ---- *)

\* GET with the owner-only rule of PATCH and DELETE
PresetGET_FindUnique_OwnerOnly(r) ==
    /\ req[r].kind = "PresetGET"
    /\ req[r].pc = "findUnique"
    /\ IF req[r].id \notin DOMAIN presets
         THEN req' = [req EXCEPT ![r].pc = "done", ![r].status = 404, ![r].read = TRUE]
         ELSE LET preset == presets[req[r].id] IN
              IF preset.createdBy # req[r].user
                THEN req' = [req EXCEPT ![r].pc = "done", ![r].status = 403,
                                        ![r].existing = Some(preset), ![r].read = TRUE]
                ELSE req' = [req EXCEPT ![r].pc = "done", ![r].status = 200,
                                        ![r].existing = Some(preset),
                                        ![r].result = Some(PresetPayload(preset)),
                                        ![r].read = TRUE]
    /\ UNCHANGED <<presets, now>>
    /\ UNCHANGED_NotPresets

\* const preset = await prisma.filter_presets.findUnique(...)
\* if (!preset) 404; if (!preset.isPublic && preset.createdBy !== ctx.userId) 403
PresetGET_FindUnique(r) ==
    /\ req[r].kind = "PresetGET"
    /\ req[r].pc = "findUnique"
    /\ IF req[r].id \notin DOMAIN presets
         THEN req' = [req EXCEPT ![r].pc = "done", ![r].status = 404, ![r].read = TRUE]
         ELSE LET preset == presets[req[r].id] IN
              IF ~preset.isPublic /\ preset.createdBy # req[r].user
                THEN req' = [req EXCEPT ![r].pc = "done", ![r].status = 403,
                                        ![r].existing = Some(preset), ![r].read = TRUE]
                ELSE IF ~IsJSON(preset.filterConfig)
                       THEN req' = [req EXCEPT ![r] =
                                       Raised([req[r] EXCEPT !.existing = Some(preset),
                                                             !.read = TRUE])]
                       ELSE req' = [req EXCEPT ![r].pc = "done", ![r].status = 200,
                                               ![r].existing = Some(preset),
                                               ![r].result = Some(PresetPayload(preset)),
                                               ![r].read = TRUE]
    /\ UNCHANGED <<presets, now>>
    /\ UNCHANGED_NotPresets

(* ---- PATCH ---- *)

\* PATCH with the public-or-owner rule of GET
PresetPATCH_FindUnique_PublicToo(r) ==
    /\ req[r].kind = "PresetPATCH"
    /\ req[r].pc = "findUnique"
    /\ IF req[r].id \notin DOMAIN presets
         THEN req' = [req EXCEPT ![r].pc = "done", ![r].status = 404, ![r].read = TRUE]
         ELSE LET preset == presets[req[r].id] IN
              IF ~preset.isPublic /\ preset.createdBy # req[r].user
                THEN req' = [req EXCEPT ![r].pc = "done", ![r].status = 403,
                                        ![r].existing = Some(preset), ![r].read = TRUE]
                ELSE req' = [req EXCEPT ![r].pc = "json",
                                        ![r].existing = Some(preset), ![r].read = TRUE]
    /\ UNCHANGED <<presets, now>>
    /\ UNCHANGED_NotPresets

\* const preset = await prisma.filter_presets.findUnique(...)
\* if (!preset) 404; if (preset.createdBy !== ctx.userId) 403
PresetPATCH_FindUnique(r) ==
    /\ req[r].kind = "PresetPATCH"
    /\ req[r].pc = "findUnique"
    /\ IF req[r].id \notin DOMAIN presets
         THEN req' = [req EXCEPT ![r].pc = "done", ![r].status = 404, ![r].read = TRUE]
         ELSE LET preset == presets[req[r].id] IN
              IF preset.createdBy # req[r].user
                THEN req' = [req EXCEPT ![r].pc = "done", ![r].status = 403,
                                        ![r].existing = Some(preset), ![r].read = TRUE]
                ELSE req' = [req EXCEPT ![r].pc = "json",
                                        ![r].existing = Some(preset), ![r].read = TRUE]
    /\ UNCHANGED <<presets, now>>
    /\ UNCHANGED_NotPresets

\* const body = await request.json(); updateData is built (filterConfig.logic
\* of a null filterConfig throws); updateData.updatedAt = new Date();
\* if (name && name !== preset.name) findFirst is called, else update
PresetPATCH_Json(r) ==
    /\ req[r].kind = "PresetPATCH"
    /\ req[r].pc = "json"
    /\ \E body \in PresetBodies :
         IF body.filterConfig = Null
           THEN /\ req' = [req EXCEPT ![r] =
                                      Raised([req[r] EXCEPT !.body = Some(body)])]
                /\ now' = now
           ELSE /\ now < MaxClock
                /\ req' = [req EXCEPT
                             ![r].pc = IF Truthy(body.name)
                                          /\ body.name # req[r].existing[1].name
                                         THEN "findFirst" ELSE "update",
                             ![r].body = Some(body),
                             ![r].data = Some(UpdateData(body, now + 1))]
                /\ now' = now + 1
    /\ UNCHANGED presets
    /\ UNCHANGED_NotPresets

\* const existing = await prisma.filter_presets.findFirst(...); if (existing) 409
PresetPATCH_FindFirst(r) ==
    /\ req[r].kind = "PresetPATCH"
    /\ req[r].pc = "findFirst"
    /\ IF FindFirstSameName(req[r].existing[1].tenantId, req[r].body[1].name,
                            req[r].user, req[r].id) # {}
         THEN Respond(r, 409)
         ELSE req' = [req EXCEPT ![r].pc = "update"]
    /\ UNCHANGED <<presets, now>>
    /\ UNCHANGED_NotPresets

\* const updatedPreset = await prisma.filter_presets.update(...), which throws
\* when the row is gone; 200 with the row, its filterConfig parsed
PresetPATCH_Update(r) ==
    /\ req[r].kind = "PresetPATCH"
    /\ req[r].pc = "update"
    /\ IF req[r].id \notin DOMAIN presets
         THEN /\ Raise(r)
              /\ UNCHANGED presets
         ELSE LET updatedPreset == ApplyUpdate(presets[req[r].id], req[r].data[1]) IN
              /\ presets' = [presets EXCEPT ![req[r].id] = updatedPreset]
              /\ req' = [req EXCEPT ![r] =
                            IF IsJSON(updatedPreset.filterConfig)
                              THEN [req[r] EXCEPT !.pc = "done", !.status = 200,
                                                  !.wrote = TRUE]
                              ELSE Raised([req[r] EXCEPT !.wrote = TRUE])]
    /\ UNCHANGED now
    /\ UNCHANGED_NotPresets

(* ---- DELETE ---- *)

\* const preset = await prisma.filter_presets.findUnique(...)
\* if (!preset) 404; if (preset.createdBy !== ctx.userId) 403
PresetDELETE_FindUnique(r) ==
    /\ req[r].kind = "PresetDELETE"
    /\ req[r].pc = "findUnique"
    /\ IF req[r].id \notin DOMAIN presets
         THEN req' = [req EXCEPT ![r].pc = "done", ![r].status = 404, ![r].read = TRUE]
         ELSE LET preset == presets[req[r].id] IN
              IF preset.createdBy # req[r].user
                THEN req' = [req EXCEPT ![r].pc = "done", ![r].status = 403,
                                        ![r].existing = Some(preset), ![r].read = TRUE]
                ELSE req' = [req EXCEPT ![r].pc = "delete",
                                        ![r].existing = Some(preset), ![r].read = TRUE]
    /\ UNCHANGED <<presets, now>>
    /\ UNCHANGED_NotPresets

\* await prisma.filter_presets.delete({ where: { id } }), which throws when the
\* row is gone; 200
PresetDELETE_Delete(r) ==
    /\ req[r].kind = "PresetDELETE"
    /\ req[r].pc = "delete"
    /\ IF req[r].id \notin DOMAIN presets
         THEN /\ Raise(r)
              /\ UNCHANGED presets
         ELSE /\ presets' = Without(presets, req[r].id)
              /\ req' = [req EXCEPT ![r].pc = "done", ![r].status = 200,
                                    ![r].wrote = TRUE]
    /\ UNCHANGED now
    /\ UNCHANGED_NotPresets

\* an awaited call of a preset handler throws: the handler's catch answers 500
PresetThrow(r) ==
    /\ req[r].kind \in PresetKinds
    /\ req[r].pc \notin {"idle", "done"}
    /\ Raise(r)
    /\ UNCHANGED <<presets, now>>
    /\ UNCHANGED_NotPresets

\* concurrent preset requests: the slots run handlers that interleave at awaits
PresetNext ==
    \E r \in Slots :
        \/ Arrive(r, PresetKinds, {NoHeader}, {NoUser, "u1", "u2"})
        \/ PresetContext(r)
        \/ PresetGET_FindUnique(r)
        \/ PresetPATCH_FindUnique(r)
        \/ PresetPATCH_Json(r)
        \/ PresetPATCH_FindFirst(r)
        \/ PresetPATCH_Update(r)
        \/ PresetDELETE_FindUnique(r)
        \/ PresetDELETE_Delete(r)
        \/ PresetThrow(r)
        \/ Finish(r)

PresetInit ==
    /\ presets = SeedPresets
    /\ schedules = <<>>
    /\ executions = {}
    /\ reports = <<>>
    /\ reportExecutions = <<>>
    /\ now = 0
    /\ req = [r \in Slots |-> IdleReq]
    /\ ClientIdle

PresetSpec == PresetInit /\ [][PresetNext]_vars

(***************************************************************************)
(* Report generation: POST /api/admin/reports/[id]/generate                *)
(***************************************************************************)
\* the rows the store holds before the run: report 1 of tenant t1 and
\* report 2 of tenant t2, neither generated yet
SeedReport(id, tenantId) ==
    [ id |-> id, tenantId |-> tenantId, name |-> S("users"),
      lastGeneratedAt |-> Null, generationCount |-> 0 ]

SeedReports == <<SeedReport(1, "t1"), SeedReport(2, "t2")>>

\* params.id: reports 1 and 2, and 3, which no row has
ReportIds == {1, 2, 3}

\* request bodies: { format = 'pdf', filters }
ReportBodies ==
    { [format |-> Undef, filters |-> Undef],
      [format |-> S("csv"), filters |-> Undef],
      [format |-> S("xlsx"), filters |-> Undef],
      [format |-> S("json"), filters |-> Undef],
      [format |-> S("xml"), filters |-> Undef],
      [format |-> Null, filters |-> Undef] }

AllUsers == Users \cup {"u9"}

TenantOf(u) == IF u = "u9" THEN "t2" ELSE UserTenant(u)

\* prisma.user.findMany({ where: { tenantId } })
FindManyUsers(tenantId) == {u \in AllUsers : TenantOf(u) = tenantId}

\* the switch (format) with the media type of a workbook for xlsx
ContentType_Workbook(format) ==
    CASE format = S("pdf") -> "text/html"
      [] format = S("xlsx") -> "application/vnd.ms-excel"
      [] format = S("csv") -> "text/csv"
      [] format = S("json") -> "application/json"

\* the switch (format): contentType and the suffix of the file name
ContentType(format) ==
    CASE format = S("pdf") -> "text/html"
      [] format = S("xlsx") -> "text/tab-separated-values"
      [] format = S("csv") -> "text/csv"
      [] format = S("json") -> "application/json"

FilenameSuffix(format) ==
    CASE format = S("pdf") -> ".html"
      [] format = S("xlsx") -> ".xlsx"
      [] format = S("csv") -> ".csv"
      [] format = S("json") -> ".json"

\* crypto.getRandomUUID() of the execution record
FreshExecutionId == 1 + Max({0} \cup DOMAIN reportExecutions)

UNCHANGED_NotReports == UNCHANGED <<schedules, executions, presets, clientVars>>

\* const { success } = await rateLimit(identifier); if (!success) 429
ReportRateLimit(r) ==
    /\ req[r].kind = "ReportPOST"
    /\ req[r].pc = "rateLimit"
    /\ IF ~rateLimit(Identifier(req[r].header)).success
         THEN Respond(r, 429)
         ELSE req' = [req EXCEPT ![r].pc = "permission"]
    /\ UNCHANGED <<reports, reportExecutions, now>>
    /\ UNCHANGED_NotReports

\* const hasAccess = await hasPermission(context.userId, 'admin:reports:generate')
\* if (!hasAccess) 403; then findUnique({ where: { id: params.id } }) is called
ReportPermission(r) ==
    /\ req[r].kind = "ReportPOST"
    /\ req[r].pc = "permission"
    /\ IF ~hasPermission(req[r].user, "admin:reports:generate")
         THEN Respond(r, 403)
         ELSE \E id \in ReportIds :
                 req' = [req EXCEPT ![r].pc = "findUnique", ![r].id = id]
    /\ UNCHANGED <<reports, reportExecutions, now>>
    /\ UNCHANGED_NotReports

\* const report = await prisma.report.findUnique(...); if (!report) 404
ReportFindUnique(r) ==
    /\ req[r].kind = "ReportPOST"
    /\ req[r].pc = "findUnique"
    /\ IF req[r].id \notin DOMAIN reports
         THEN req' = [req EXCEPT ![r].pc = "done", ![r].status = 404, ![r].read = TRUE]
         ELSE req' = [req EXCEPT ![r].pc = "json", ![r].read = TRUE,
                                 ![r].existing = Some(reports[req[r].id])]
    /\ UNCHANGED <<reports, reportExecutions, now>>
    /\ UNCHANGED_NotReports

\* the body step with the execution record created before the format is tested
ReportJson_RecordFirst(r) ==
    /\ req[r].kind = "ReportPOST"
    /\ req[r].pc = "json"
    /\ now < MaxClock
    /\ \E body \in ReportBodies :
         LET format == Default(body.format, S("pdf"))
             id == FreshExecutionId
             execution == [ id |-> id, reportId |-> req[r].existing[1].id,
                            status |-> "generating", executedAt |-> now + 1,
                            completedAt |-> Null, errorMessage |-> Null ]
         IN  /\ reportExecutions' = [i \in DOMAIN reportExecutions \cup {id} |->
                                        IF i = id THEN execution ELSE reportExecutions[i]]
             /\ IF format \notin {S("pdf"), S("xlsx"), S("csv"), S("json")}
                  THEN req' = [req EXCEPT ![r].pc = "done", ![r].status = 400,
                                          ![r].body = Some(body), ![r].wrote = TRUE]
                  ELSE req' = [req EXCEPT ![r].pc = "findMany", ![r].body = Some(body),
                                          ![r].data = Some(id), ![r].wrote = TRUE]
             /\ now' = now + 1
    /\ UNCHANGED reports
    /\ UNCHANGED_NotReports

\* const body = await request.json(); const { format = 'pdf', filters } = body
\* if (![...].includes(format)) 400; then reportExecution.create is called
\* with executedAt: new Date()
ReportJson(r) ==
    /\ req[r].kind = "ReportPOST"
    /\ req[r].pc = "json"
    /\ \E body \in ReportBodies :
         LET format == Default(body.format, S("pdf")) IN
         IF format \notin {S("pdf"), S("xlsx"), S("csv"), S("json")}
           THEN /\ req' = [req EXCEPT ![r].pc = "done", ![r].status = 400,
                                      ![r].body = Some(body)]
                /\ now' = now
           ELSE /\ now < MaxClock
                /\ req' = [req EXCEPT ![r].pc = "createExecution",
                                      ![r].body = Some(body)]
                /\ now' = now + 1
    /\ UNCHANGED <<reports, reportExecutions>>
    /\ UNCHANGED_NotReports

\* const execution = await prisma.reportExecution.create({ data: { id, reportId,
\*     status: 'generating', executedAt } }); then user.findMany is called
ReportCreateExecution(r) ==
    /\ req[r].kind = "ReportPOST"
    /\ req[r].pc = "createExecution"
    /\ LET id == FreshExecutionId
           execution == [ id |-> id, reportId |-> req[r].existing[1].id,
                          status |-> "generating", executedAt |-> now,
                          completedAt |-> Null, errorMessage |-> Null ]
       IN  /\ reportExecutions' = [i \in DOMAIN reportExecutions \cup {id} |->
                                      IF i = id THEN execution ELSE reportExecutions[i]]
           /\ req' = [req EXCEPT ![r].pc = "findMany", ![r].data = Some(id),
                                 ![r].wrote = TRUE]
    /\ UNCHANGED <<reports, now>>
    /\ UNCHANGED_NotReports

\* const users = await prisma.user.findMany({ where: { tenantId: report.tenantId } })
\* the content is generated; then reportExecution.update is called
ReportFindMany(r) ==
    /\ req[r].kind = "ReportPOST"
    /\ req[r].pc = "findMany"
    /\ LET format == Default(req[r].body[1].format, S("pdf")) IN
       req' = [req EXCEPT ![r].pc = "updateExecution",
                          ![r].result = Some([ contentType |-> ContentType(format),
                                               disposition |-> "attachment",
                                               suffix |-> FilenameSuffix(format),
                                               rows |-> FindManyUsers(req[r].existing[1].tenantId) ])]
    /\ UNCHANGED <<reports, reportExecutions, now>>
    /\ UNCHANGED_NotReports

\* await prisma.reportExecution.update({ where: { id: execution.id },
\*     data: { status: 'completed', fileSizeBytes, completedAt: new Date() } })
ReportUpdateExecution(r) ==
    /\ req[r].kind = "ReportPOST"
    /\ req[r].pc = "updateExecution"
    /\ reportExecutions' = [reportExecutions EXCEPT
                              ![req[r].data[1]].status = "completed",
                              ![req[r].data[1]].completedAt = N(now)]
    /\ req' = [req EXCEPT ![r].pc = "updateReport"]
    /\ UNCHANGED <<reports, now>>
    /\ UNCHANGED_NotReports

\* an update that writes the count of the row read by findUnique, plus one
ReportUpdateReport_FromRead(r) ==
    /\ req[r].kind = "ReportPOST"
    /\ req[r].pc = "updateReport"
    /\ reports' = [reports EXCEPT
                     ![req[r].id].lastGeneratedAt = N(now),
                     ![req[r].id].generationCount = req[r].existing[1].generationCount + 1]
    /\ req' = [req EXCEPT ![r].pc = "done", ![r].status = 200]
    /\ UNCHANGED <<reportExecutions, now>>
    /\ UNCHANGED_NotReports

\* await prisma.report.update({ where: { id: report.id },
\*     data: { lastGeneratedAt: new Date(), generationCount: { increment: 1 } } })
\* return new NextResponse(generatedContent, { status: 200, headers })
ReportUpdateReport(r) ==
    /\ req[r].kind = "ReportPOST"
    /\ req[r].pc = "updateReport"
    /\ reports' = [reports EXCEPT
                     ![req[r].id].lastGeneratedAt = N(now),
                     ![req[r].id].generationCount = @ + 1]
    /\ req' = [req EXCEPT ![r].pc = "done", ![r].status = 200]
    /\ UNCHANGED <<reportExecutions, now>>
    /\ UNCHANGED_NotReports

\* an inner try without a catch of its own: the error goes to the outer catch
ReportThrowInner_Uncaught(r) ==
    /\ req[r].kind = "ReportPOST"
    /\ req[r].pc \in {"findMany", "updateExecution", "updateReport"}
    /\ Raise(r)
    /\ UNCHANGED <<reports, reportExecutions, now>>
    /\ UNCHANGED_NotReports

\* an awaited call inside the inner try throws: the inner catch calls
\* reportExecution.update with status 'failed'
ReportThrowInner(r) ==
    /\ req[r].kind = "ReportPOST"
    /\ req[r].pc \in {"findMany", "updateExecution", "updateReport"}
    /\ req' = [req EXCEPT ![r].pc = "failExecution", ![r].result = NoValue,
                          ![r].threw = Append(@, req[r].pc)]
    /\ UNCHANGED <<reports, reportExecutions, now>>
    /\ UNCHANGED_NotReports

\* the inner catch that throws the error on without recording it
ReportFailExecution_Unrecorded(r) ==
    /\ req[r].kind = "ReportPOST"
    /\ req[r].pc = "failExecution"
    /\ UNCHANGED reportExecutions
    /\ Caught(r)
    /\ UNCHANGED <<reports, now>>
    /\ UNCHANGED_NotReports

\* await prisma.reportExecution.update({ where: { id: execution.id },
\*     data: { status: 'failed', errorMessage, completedAt: new Date() } })
\* with errorMessage: error instanceof Error ? error.message : 'Unknown error'
\* throw error: the outer catch answers 500
ReportFailExecution(r) ==
    /\ req[r].kind = "ReportPOST"
    /\ req[r].pc = "failExecution"
    /\ \E errorMessage \in {ErrorMessage, "Unknown error"} :
         reportExecutions' = [reportExecutions EXCEPT
                                ![req[r].data[1]].status = "failed",
                                ![req[r].data[1]].errorMessage = S(errorMessage),
                                ![req[r].data[1]].completedAt = N(now)]
    /\ Caught(r)
    /\ UNCHANGED <<reports, now>>
    /\ UNCHANGED_NotReports

\* an awaited call outside the inner try, or the update of the inner catch,
\* throws: the outer catch answers 500
ReportThrow(r) ==
    /\ req[r].kind = "ReportPOST"
    /\ req[r].pc \in {"rateLimit", "permission", "findUnique", "json",
                      "createExecution", "failExecution"}
    /\ Raise(r)
    /\ UNCHANGED <<reports, reportExecutions, now>>
    /\ UNCHANGED_NotReports

(***************************************************************************)
(* All the handlers, one request at a time, over a store in which one of   *)
(* the three tables holds its rows.                                        *)
(***************************************************************************)
\* report generations that may interleave
ReportNext ==
    \E r \in Slots :
        \/ Arrive(r, {"ReportPOST"}, {NoHeader}, {"u1", "u2"})
        \/ ReportRateLimit(r)
        \/ ReportPermission(r)
        \/ ReportFindUnique(r)
        \/ ReportJson(r)
        \/ ReportCreateExecution(r)
        \/ ReportFindMany(r)
        \/ ReportUpdateExecution(r)
        \/ ReportUpdateReport(r)
        \/ ReportThrowInner(r)
        \/ ReportFailExecution(r)
        \/ ReportThrow(r)
        \/ Finish(r)

ReportInit ==
    /\ reports = SeedReports
    /\ schedules = <<>>
    /\ executions = {}
    /\ presets = <<>>
    /\ reportExecutions = <<>>
    /\ now = 0
    /\ req = [r \in Slots |-> IdleReq]
    /\ ClientIdle

ReportSpec == ReportInit /\ [][ReportNext]_vars

AllKinds == ScheduleKinds \cup PresetKinds \cup {"ReportPOST"}

Next ==
    \E r \in {1} :
        \/ Arrive(r, AllKinds, Headers, Sessions)
        \/ ScheduleRateLimit(r)
        \/ ScheduleSession(r)
        \/ SchedulePermission(r)
        \/ ScheduleFindUser(r)
        \/ ScheduleGET_FindMany(r)
        \/ SchedulePOST_Json(r)
        \/ SchedulePOST_Count(r)
        \/ SchedulePOST_Create(r)
        \/ SchedulePATCH_Json(r)
        \/ SchedulePATCH_UpdateMany(r)
        \/ ScheduleDELETE_Executions(r)
        \/ ScheduleDELETE_Schedules(r)
        \/ ScheduleThrow(r)
        \/ PresetContext(r)
        \/ PresetGET_FindUnique(r)
        \/ PresetPATCH_FindUnique(r)
        \/ PresetPATCH_Json(r)
        \/ PresetPATCH_FindFirst(r)
        \/ PresetPATCH_Update(r)
        \/ PresetDELETE_FindUnique(r)
        \/ PresetDELETE_Delete(r)
        \/ PresetThrow(r)
        \/ ReportRateLimit(r)
        \/ ReportPermission(r)
        \/ ReportFindUnique(r)
        \/ ReportJson(r)
        \/ ReportCreateExecution(r)
        \/ ReportFindMany(r)
        \/ ReportUpdateExecution(r)
        \/ ReportUpdateReport(r)
        \/ ReportThrowInner(r)
        \/ ReportFailExecution(r)
        \/ ReportThrow(r)
        \/ Finish(r)

Init ==
    /\ \/ ScheduleInit /\ presets = <<>> /\ reports = <<>>
       \/ schedules = <<>> /\ executions = {} /\ presets = SeedPresets /\ reports = <<>>
       \/ schedules = <<>> /\ executions = {} /\ presets = <<>> /\ reports = SeedReports
    /\ reportExecutions = <<>>
    /\ now = 0
    /\ req = [r \in Slots |-> IdleReq]
    /\ ClientIdle

Spec == Init /\ [][Next]_vars

(***************************************************************************)
(* generateCSVReport(report, reportData), called on its own.               *)
(***************************************************************************)
MaxLen == 2       \* characters of a field value
MaxRows == 2      \* rows of reportData
MaxColumns == 2   \* column descriptors of reportData

Quote == "\""
Comma == ","
Newline == "\n"

SeqsUpTo(A, n) == UNION {[1..k -> A] : k \in 0..n}

\* the values a field of a user row holds: strings (with quotes inside), null,
\* or nothing at all
NameValues == {T(chars) : chars \in SeqsUpTo({"a", Quote}, MaxLen)} \cup {Null, Undef}

EmailValues == {T(<<"b", Comma>>), Undef}

CsvRows == {[name |-> n, email |-> e] : n \in NameValues, e \in EmailValues}

\* the rows that follow the first one
MoreRows == {[name |-> Undef, email |-> T(<<"b", Comma>>)],
             [name |-> T(<<Quote>>), email |-> Undef]}

\* reportData.rows: no row, or any row followed by some of MoreRows
CsvRowSeqs ==
    {<<>>} \cup {<<row>> \o more : row \in CsvRows, more \in SeqsUpTo(MoreRows, MaxRows - 1)}

\* report.sections[0].columns: descriptors { name, label }
CsvColumn(name) == [name |-> name, label |-> IF name = "name" THEN <<"N">> ELSE <<"E">>]

CsvColumns == {[k \in DOMAIN names |-> CsvColumn(names[k])] :
                  names \in SeqsUpTo({"name", "email"}, MaxColumns)}

\* row[c.name]
RowGet(row, name) == IF name \in DOMAIN row THEN row[name] ELSE Undef

\* String(value) of a string
String(value) == value[2]

\* s.replace(/"/, '""'): the first quote only
RECURSIVE ReplaceQuotes_First(_)
ReplaceQuotes_First(s) ==
    IF s = <<>> THEN <<>>
    ELSE IF Head(s) = Quote THEN <<Quote, Quote>> \o Tail(s)
    ELSE <<Head(s)>> \o ReplaceQuotes_First(Tail(s))

\* s.replace(/"/g, '""')
RECURSIVE ReplaceQuotes(_)
ReplaceQuotes(s) ==
    IF s = <<>> THEN <<>>
    ELSE (IF Head(s) = Quote THEN <<Quote, Quote>> ELSE <<Head(s)>>)
             \o ReplaceQuotes(Tail(s))

\* parts.join(sep)
RECURSIVE Join(_, _)
Join(parts, sep) ==
    IF parts = <<>> THEN <<>>
    ELSE IF Len(parts) = 1 THEN parts[1]
    ELSE parts[1] \o <<sep>> \o Join(Tail(parts), sep)

\* const value = row[c.name] || ''; return `"${String(value).replace(/"/g, '""')}"`
CsvField(row, c) ==
    LET value == OrElse(RowGet(row, c.name), T(<<>>)) IN
    <<Quote>> \o ReplaceQuotes(String(value)) \o <<Quote>>

\* rows.forEach(row => { csv += columns.map(...).join(',') + '\n' })
RECURSIVE CsvData(_, _)
CsvData(rows, columns) ==
    IF rows = <<>> THEN <<>>
    ELSE Join([k \in DOMAIN columns |-> CsvField(rows[1], columns[k])], Comma)
             \o <<Newline>> \o CsvData(Tail(rows), columns)

\* function generateCSVReport(report, reportData): string
generateCSVReport(report, reportData) ==
    LET headers == IF Len(reportData.columns) > 0
                     THEN Join([k \in DOMAIN reportData.columns |->
                                   <<Quote>> \o reportData.columns[k].label \o <<Quote>>],
                               Comma) \o <<Newline>>
                     ELSE <<>>
        data == IF Len(reportData.rows) > 0
                  THEN CsvData(reportData.rows, reportData.columns)
                  ELSE <<>>
    IN  headers \o data

\* generateCSVReport is called with some report data
CallGenerateCSV ==
    /\ call = NoCall
    /\ \E columns \in CsvColumns : \E rows \in CsvRowSeqs :
         LET reportData == [columns |-> columns, rows |-> rows] IN
         call' = [fn |-> "generateCSVReport", reportData |-> reportData,
                  ret |-> generateCSVReport(SeedReport(1, "t1"), reportData)]
    /\ UNCHANGED <<serverVars, views, card, hook, form>>

\* the result has been used
Return ==
    /\ call # NoCall
    /\ call' = NoCall
    /\ UNCHANGED <<serverVars, views, card, hook, form>>

ServerIdle ==
    /\ schedules = <<>>
    /\ executions = {}
    /\ presets = <<>>
    /\ reports = <<>>
    /\ reportExecutions = <<>>
    /\ now = 0
    /\ req = [r \in Slots |-> IdleReq]

CsvInit == ServerIdle /\ ClientIdle

CsvNext == CallGenerateCSV \/ Return

CsvSpec == CsvInit /\ [][CsvNext]_vars

(***************************************************************************)
(* SavedViewsButtons: four buttons, one per saved view, each with a badge  *)
(* showing the number of users of the view.  The component is driven as    *)
(* its tests drive it: it is rendered and rerendered with props, and its   *)
(* buttons are clicked; onViewChange is a recording function.              *)
(***************************************************************************)
MaxClicks == 3    \* clicks fired at a rendered component

ViewNames == {"all", "clients", "team", "admins"}

mockViewCounts == [all |-> 150, clients |-> 50, team |-> 75, admins |-> 25]

largeCounts == [all |-> 10000, clients |-> 5000, team |-> 7500, admins |-> 2500]

zeroCounts == [all |-> 0, clients |-> 0, team |-> 0, admins |-> 0]

\* counts on both sides of the largest count shown as it is
edgeCounts == [all |-> 100, clients |-> 99, team |-> 101, admins |-> 98]

ViewCounts == {mockViewCounts, largeCounts, zeroCounts, edgeCounts}

\* the role filter of a view
ViewRole(viewName) ==
    CASE viewName = "clients" -> S("CLIENT")
      [] viewName = "team" -> S("TEAM")
      [] viewName = "admins" -> S("ADMIN")
      [] OTHER -> Undef

\* the badge with the largest count shown as it is one lower
ViewCountText_Below99(count) ==
    IF count > 98 THEN S("99+") ELSE N(count)

\* the text of the badge of a view
ViewCountText(count) ==
    IF count > 99 THEN S("99+") ELSE N(count)

Badges(viewCounts) == [v \in ViewNames |-> ViewCountText(viewCounts[v])]

UNCHANGED_NotViews == UNCHANGED <<serverVars, call, card, hook, form>>

\* render(<SavedViewsButtons activeView onViewChange viewCounts />)
RenderViews ==
    /\ views = NotMounted
    /\ \E activeView \in ViewNames : \E viewCounts \in ViewCounts :
         views' = [mounted |-> TRUE, activeView |-> activeView, viewCounts |-> viewCounts,
                   badges |-> Badges(viewCounts), clicks |-> <<>>, onViewChange |-> <<>>]
    /\ UNCHANGED_NotViews

\* rerender(...) with other props; onViewChange keeps its recorded calls
RerenderViews ==
    /\ views # NotMounted
    /\ \E activeView \in ViewNames : \E viewCounts \in ViewCounts :
         views' = [views EXCEPT !.activeView = activeView, !.viewCounts = viewCounts,
                                !.badges = Badges(viewCounts)]
    /\ UNCHANGED_NotViews

\* a click that is ignored on the button of the active view
ClickView_IgnoredWhenActive(viewName) ==
    /\ views # NotMounted
    /\ Len(views.clicks) < MaxClicks
    /\ views' = [views EXCEPT
                   !.clicks = Append(@, viewName),
                   !.onViewChange = IF viewName = views.activeView THEN @
                                    ELSE Append(@, <<S(viewName), ViewRole(viewName)>>)]
    /\ UNCHANGED_NotViews

\* fireEvent.click(screen.getByTestId('view-btn-' + viewName))
ClickView(viewName) ==
    /\ views # NotMounted
    /\ Len(views.clicks) < MaxClicks
    /\ views' = [views EXCEPT
                   !.clicks = Append(@, viewName),
                   !.onViewChange = Append(@, <<S(viewName), ViewRole(viewName)>>)]
    /\ UNCHANGED_NotViews

ViewsInit == ServerIdle /\ ClientIdle

ViewsNext ==
    \/ RenderViews
    \/ RerenderViews
    \/ \E viewName \in ViewNames : ClickView(viewName)

ViewsSpec == ViewsInit /\ [][ViewsNext]_vars

(***************************************************************************)
(* QuickStatsCard: the statistics card with its refresh button.  A click   *)
(* on the enabled button calls the onRefresh prop, an async function that  *)
(* settles later by resolving or by rejecting.  A disabled button does not *)
(* deliver clicks.                                                         *)
(***************************************************************************)
MaxRefreshes == 5    \* onRefresh calls started at a rendered card

\* the disabled attribute of the refresh button
RefreshDisabled(isRefreshing, loading) == isRefreshing \/ loading

UNCHANGED_NotCard == UNCHANGED <<serverVars, call, views, hook, form>>

\* render(<QuickStatsCard stats isRefreshing onRefresh />)
RenderCard ==
    /\ card = NotMounted
    /\ \E isRefreshing \in BOOLEAN :
         card' = [mounted |-> TRUE, isRefreshing |-> isRefreshing, loading |-> FALSE,
                  disabled |-> RefreshDisabled(isRefreshing, FALSE),
                  inFlight |-> 0, onRefresh |-> <<>>, consoleError |-> <<>>,
                  failed |-> FALSE]
    /\ UNCHANGED_NotCard

\* the parent renders the card again with another isRefreshing
RerenderCard ==
    /\ card # NotMounted
    /\ \E isRefreshing \in BOOLEAN :
         /\ isRefreshing # card.isRefreshing
         /\ card' = [card EXCEPT !.isRefreshing = isRefreshing,
                                 !.disabled = RefreshDisabled(isRefreshing, card.loading)]
    /\ UNCHANGED_NotCard

\* a click handler that calls onRefresh without marking the card as loading
ClickRefresh_NotLoading ==
    /\ card # NotMounted
    /\ ~card.disabled
    /\ Len(card.onRefresh) < MaxRefreshes
    /\ card' = [card EXCEPT !.inFlight = @ + 1,
                            !.onRefresh = Append(@, "pending")]
    /\ UNCHANGED_NotCard

\* fireEvent.click(refreshBtn): the handler marks the card as loading and
\* awaits onRefresh()
ClickRefresh ==
    /\ card # NotMounted
    /\ ~card.disabled
    /\ Len(card.onRefresh) < MaxRefreshes
    /\ card' = [card EXCEPT !.loading = TRUE,
                            !.disabled = TRUE,
                            !.inFlight = @ + 1,
                            !.onRefresh = Append(@, "pending")]
    /\ UNCHANGED_NotCard

\* the call of onRefresh that has not settled
PendingRefresh == CHOOSE i \in DOMAIN card.onRefresh : card.onRefresh[i] = "pending"

\* onRefresh resolves: the handler clears the loading mark
RefreshResolved ==
    /\ card # NotMounted
    /\ card.inFlight > 0
    /\ card' = [card EXCEPT !.loading = FALSE,
                            !.disabled = RefreshDisabled(card.isRefreshing, FALSE),
                            !.inFlight = @ - 1,
                            !.onRefresh[PendingRefresh] = "resolved"]
    /\ UNCHANGED_NotCard

\* onRefresh rejects: the handler catches the error, logs it with
\* console.error and clears the loading mark
RefreshRejected ==
    /\ card # NotMounted
    /\ card.inFlight > 0
    /\ card' = [card EXCEPT !.loading = FALSE,
                            !.disabled = RefreshDisabled(card.isRefreshing, FALSE),
                            !.inFlight = @ - 1,
                            !.onRefresh[PendingRefresh] = "rejected",
                            !.consoleError = Append(@, "Refresh failed")]
    /\ UNCHANGED_NotCard

CardInit == ServerIdle /\ ClientIdle

CardNext ==
    \/ RenderCard
    \/ RerenderCard
    \/ ClickRefresh
    \/ RefreshResolved
    \/ RefreshRejected

CardSpec == CardInit /\ [][CardNext]_vars

(***************************************************************************)
(* useFilterState(users): the filter state of the user directory (search   *)
(* text, role, status), the users that pass the filters and the counts     *)
(* shown by the filter bar.                                                *)
(***************************************************************************)
MaxUsers == 2    \* users of the collection given to the hook

User(name, email, phone, company, role, status) ==
    [name |-> name, email |-> email, phone |-> phone, company |-> company,
     role |-> role, status |-> status]

\* the users a collection is made of
UserPool ==
    { User(T(<<"A", "b">>), T(<<"a", "1">>), Null, Null, S("ADMIN"), S("ACTIVE")),
      User(T(<<"b">>), T(<<"b", "1">>), T(<<"1", "2">>), T(<<"B", "a">>),
           S("CLIENT"), S("ACTIVE")),
      User(T(<<"a">>), T(<<"a", "2">>), T(<<"2">>), Null, S("CLIENT"), S("INACTIVE")),
      User(Null, T(<<"2">>), Null, T(<<"A">>), S("ADMIN"), S("INACTIVE")) }

UserCollections == SeqsUpTo(UserPool, MaxUsers)

SearchTexts == {<<>>, <<"a">>, <<"B">>, <<"1">>, <<"a", "b">>, <<"b", "a">>}

RoleFilters == {Null, S("ADMIN"), S("CLIENT")}

StatusFilters == {Null, S("ACTIVE"), S("INACTIVE")}

\* the filters before any is set and after clearFilters
NoFilters == [search |-> <<>>, role |-> Null, status |-> Null]

toLowerCase(chars) ==
    [i \in DOMAIN chars |->
        CASE chars[i] = "A" -> "a"
          [] chars[i] = "B" -> "b"
          [] OTHER -> chars[i]]

\* hay.includes(needle)
includes(hay, needle) ==
    \E k \in 0..(Len(hay) - Len(needle)) : SubSeq(hay, k + 1, k + Len(needle)) = needle

searchFields == {"name", "email", "phone", "company"}

\* some search field of the user holds the search text, whatever the case
MatchesSearch(user, search) ==
    \E f \in searchFields :
        /\ user[f] # Null
        /\ includes(toLowerCase(user[f][2]), toLowerCase(search))

\* the users that pass any one of the set filters
filterUsers_AnyFilter(users, filters) ==
    LET Passes(user) ==
            \/ filters = NoFilters
            \/ filters.search # <<>> /\ MatchesSearch(user, filters.search)
            \/ filters.role # Null /\ user.role = filters.role
            \/ filters.status # Null /\ user.status = filters.status
    IN  SelectSeq(users, Passes)

\* the users that pass the filters: the search, then the role, then the status
filterUsers(users, filters) ==
    LET BySearch(user) == MatchesSearch(user, filters.search)
        ByRole(user) == user.role = filters.role
        ByStatus(user) == user.status = filters.status
        searched == IF filters.search = <<>> THEN users ELSE SelectSeq(users, BySearch)
        ofRole == IF filters.role = Null THEN searched ELSE SelectSeq(searched, ByRole)
    IN  IF filters.status = Null THEN ofRole ELSE SelectSeq(ofRole, ByStatus)

\* what the hook returns for the users and the filters it holds
\* (last and before keep the last call made and the filters it found)
FilterResult(users, filters, last, before) ==
    LET filteredUsers == filterUsers(users, filters) IN
    [mounted |-> TRUE, users |-> users, filters |-> filters,
     last |-> last, before |-> before,
     filteredUsers |-> filteredUsers,
     stats |-> [totalCount |-> Len(users),
                filteredCount |-> Len(filteredUsers),
                isFiltered |-> filters.search # <<>> \/ filters.role # Null
                               \/ filters.status # Null]]

UNCHANGED_NotHook == UNCHANGED <<serverVars, call, views, card, form>>

\* the first render of a component that calls useFilterState(users)
UseFilterState ==
    /\ hook = NotMounted
    /\ \E users \in UserCollections : hook' = FilterResult(users, NoFilters, "useFilterState", NoFilters)
    /\ UNCHANGED_NotHook

\* updateFilter(key, value)
updateFilter(key, value) ==
    /\ hook # NotMounted
    /\ hook' = FilterResult(hook.users, [hook.filters EXCEPT ![key] = value],
                            "updateFilter", hook.filters)
    /\ UNCHANGED_NotHook

\* a clearFilters that resets the role and the status and keeps the search text
clearFilters_KeepSearch ==
    /\ hook # NotMounted
    /\ hook' = FilterResult(hook.users, [NoFilters EXCEPT !.search = hook.filters.search],
                            "clearFilters", hook.filters)
    /\ UNCHANGED_NotHook

\* clearFilters()
clearFilters ==
    /\ hook # NotMounted
    /\ hook' = FilterResult(hook.users, NoFilters, "clearFilters", hook.filters)
    /\ UNCHANGED_NotHook

FilterInit == ServerIdle /\ ClientIdle

FilterNext ==
    \/ UseFilterState
    \/ \E value \in SearchTexts : updateFilter("search", value)
    \/ \E value \in RoleFilters : updateFilter("role", value)
    \/ \E value \in StatusFilters : updateFilter("status", value)
    \/ clearFilters

FilterSpec == FilterInit /\ [][FilterNext]_vars

(***************************************************************************)
(* ClientFormModal: the form that creates or edits a client.  handleSubmit *)
(* is an async function: one action below is the part of it that runs      *)
(* from one await to the next.  The fields are disabled while a submission *)
(* is in progress, and so is the submit button.                            *)
(***************************************************************************)
MaxSubmits == 2    \* submit events delivered to a rendered form

\* values typed into the name and the email field
NameInputs == {<<>>, <<" ">>, <<" ", "A", " ">>}

EmailInputs == {<<>>, <<" ", " ">>, GoodEmail, NoDotEmail, <<" ">> \o GoodEmail}

\* s.trim()
trim(s) ==
    LET kept == {k \in DOMAIN s : s[k] # " "} IN
    IF kept = {} THEN <<>>
    ELSE SubSeq(s, CHOOSE k \in kept : \A j \in kept : k <= j,
                   CHOOSE k \in kept : \A j \in kept : k >= j)

\* validateForm without the test of the email against the pattern
validateForm_NoPattern(formData) ==
    IF trim(formData.name) = <<>> THEN S("Client name is required")
    ELSE IF trim(formData.email) = <<>> THEN S("Email is required")
    ELSE Null

\* validateForm: the error it sets, or null where it returns true
validateForm(formData) ==
    IF trim(formData.name) = <<>> THEN S("Client name is required")
    ELSE IF trim(formData.email) = <<>> THEN S("Email is required")
    ELSE IF ~emailRegexTest(formData.email) THEN S("Invalid email format")
    ELSE Null

\* what a submission has done so far: whether the form was valid, the requests
\* sent, the response received, what response.json() did and returned, the
\* callbacks called, in order
NoSubmission ==
    [valid |-> FALSE, sent |-> <<>>, response |-> "none", json |-> "none",
     result |-> Undef, called |-> <<>>]

UNCHANGED_NotForm == UNCHANGED <<serverVars, call, views, card, hook>>

\* render(<ClientFormModal isOpen onClose onSuccess mode />)
RenderForm ==
    /\ form = NotMounted
    /\ \E mode \in {"create", "edit"} :
         form' = [mounted |-> TRUE, mode |-> mode,
                  formData |-> [name |-> <<>>, email |-> <<>>],
                  isSubmitting |-> FALSE, error |-> Null, pc |-> "idle",
                  submits |-> 0, submission |-> NoSubmission]
    /\ UNCHANGED_NotForm

\* handleChange(field, value), from an input that is not disabled
handleChange(field, value) ==
    /\ form # NotMounted
    /\ ~form.isSubmitting
    /\ form.formData[field] # value
    /\ form' = [form EXCEPT !.formData[field] = value, !.error = Null]
    /\ UNCHANGED_NotForm

\* a finally that is skipped when the catch has run
Settled_NoFinally(f) ==
    IF f.error # Null THEN [f EXCEPT !.pc = "idle"]
    ELSE [f EXCEPT !.isSubmitting = FALSE, !.pc = "idle"]

\* finally { setIsSubmitting(false) }, after the try or the catch
Settled(f) ==
    [f EXCEPT !.isSubmitting = FALSE, !.pc = "idle"]

\* the catch of handleSubmit: setError(errorMessage), toast.error(errorMessage)
Catch(f, errorMessage) == Settled([f EXCEPT !.error = errorMessage])

\* the submit event: handleSubmit up to `await fetch(endpoint, ...)`
handleSubmit ==
    /\ form # NotMounted
    /\ ~form.isSubmitting
    /\ form.submits < MaxSubmits
    /\ LET error == validateForm(form.formData)
           method == IF form.mode = "create" THEN "POST" ELSE "PATCH"
       IN  IF error # Null
             THEN form' = [form EXCEPT !.error = error, !.submits = @ + 1,
                                       !.submission = NoSubmission]
             ELSE form' = [form EXCEPT !.isSubmitting = TRUE, !.pc = "fetch",
                                       !.submits = @ + 1,
                                       !.submission = [NoSubmission EXCEPT
                                                         !.valid = TRUE, !.sent = <<method>>]]
    /\ UNCHANGED_NotForm

\* fetch resolves with a response; response.json() is awaited next
FetchResolved ==
    /\ form # NotMounted
    /\ form.pc = "fetch"
    /\ \E ok \in BOOLEAN :
         form' = [form EXCEPT !.pc = IF ok THEN "result" ELSE "errorData",
                              !.submission.response = IF ok THEN "ok" ELSE "notOk"]
    /\ UNCHANGED_NotForm

\* fetch rejects: err.message, or 'An error occurred' when err is not an Error
FetchRejected ==
    /\ form # NotMounted
    /\ form.pc = "fetch"
    /\ \E errorMessage \in {S("Failed to fetch"), S("An error occurred")} :
         form' = Catch([form EXCEPT !.submission.response = "threw"], errorMessage)
    /\ UNCHANGED_NotForm

\* const errorData = await response.json() of a response that is not ok, and
\* throw new Error(errorData.message || `Failed to ${...} client`); the read of
\* the body may throw instead
ErrorDataRead ==
    /\ form # NotMounted
    /\ form.pc = "errorData"
    /\ \E message \in {Undef, S("Email already in use"), S("Unexpected end of JSON input")} :
         form' = Catch([form EXCEPT !.submission.json =
                                        IF message = S("Unexpected end of JSON input")
                                          THEN "threw" ELSE "returned"],
                       OrElse(message,
                                    IF form.mode = "create"
                                      THEN S("Failed to create client")
                                      ELSE S("Failed to update client")))
    /\ UNCHANGED_NotForm

\* the ok branch with onClose called before onSuccess
ResultRead_CloseFirst ==
    /\ form # NotMounted
    /\ form.pc = "result"
    /\ \E id \in {S("c1"), Undef} :
         form' = Settled([form EXCEPT !.submission.json = "returned",
                                      !.submission.result = id,
                                      !.submission.called =
                                          <<<<"onClose">>, <<"onSuccess", id>>>>])
    /\ UNCHANGED_NotForm

\* const result = await response.json() of an ok response; toast.success(...);
\* onSuccess?.(result.id); onClose()
ResultRead ==
    /\ form # NotMounted
    /\ form.pc = "result"
    /\ \E id \in {S("c1"), Undef} :
         form' = Settled([form EXCEPT !.submission.json = "returned",
                                      !.submission.result = id,
                                      !.submission.called =
                                          <<<<"onSuccess", id>>, <<"onClose">>>>])
    /\ UNCHANGED_NotForm

\* response.json() of an ok response throws (a body that is empty or not JSON),
\* or the body is null and result.id throws
ResultThrows ==
    /\ form # NotMounted
    /\ form.pc = "result"
    /\ \E errorMessage \in {S("Unexpected end of JSON input"),
                             S("Cannot read properties of null (reading 'id')")} :
         form' = Catch([form EXCEPT !.submission.json = "threw"], errorMessage)
    /\ UNCHANGED_NotForm

FormInit == ServerIdle /\ ClientIdle

FormNext ==
    \/ RenderForm
    \/ \E value \in NameInputs : handleChange("name", value)
    \/ \E value \in EmailInputs : handleChange("email", value)
    \/ handleSubmit
    \/ FetchResolved
    \/ FetchRejected
    \/ ErrorDataRead
    \/ ResultRead
    \/ ResultThrows

FormSpec == FormInit /\ [][FormNext]_vars

\* every promise that handleSubmit awaits settles: fetch resolves or rejects,
\* and so does the read of the body of the response
FormLiveSpec ==
    /\ FormSpec
    /\ WF_vars(FetchResolved \/ FetchRejected)
    /\ WF_vars(ErrorDataRead)
    /\ WF_vars(ResultRead \/ ResultThrows)

Tenants == {"t1", "t2"}

(***************************************************************************)
(* C1: in every reachable state, also under interleaved concurrent POSTs   *)
(* of one tenant, no tenant holds more than 20 export schedules.           *)
(***************************************************************************)
C1_AtMostLimitPerTenant ==
    \A t \in Tenants : CountSchedules(t) <= ScheduleLimit

(***************************************************************************)
(* C2: a POST that finds its tenant holding 20 or more schedules (the      *)
(* request passed rate limit, session, permission and validation, or it    *)
(* would not have counted) is answered 400 and has written nothing.        *)
(***************************************************************************)
PostAtLimit(r) ==
    /\ req[r].kind = "SchedulePOST"
    /\ req[r].pc = "done"
    /\ req[r].existing # NoValue
    /\ req[r].existing[1] >= 20

C2_LimitRejected ==
    \A r \in Slots :
        PostAtLimit(r) =>
            /\ req[r].status = 400
            /\ ~req[r].wrote
            /\ req[r].result = NoValue

C2_Witness ==
    \E r \in Slots :
        /\ PostAtLimit(r)
        /\ req[r].body[1] \in ValidBodies
        /\ CountSchedules(req[r].tenantId) = 20
        /\ req[r].status = 400

(***************************************************************************)
(* C3: a POST whose body fails validation, in the claim's words: name,     *)
(* frequency or format missing, recipients missing or empty, format not    *)
(* one of csv/xlsx/json/pdf, or a recipient that is no email address, is   *)
(* answered 400 and has created no row.                                    *)
(***************************************************************************)
Missing(v) == v \in {Undef, Null}

ClaimedInvalid(body) ==
    \/ Missing(body.name)
    \/ Missing(body.frequency)
    \/ Missing(body.format)
    \/ Missing(body.recipients)
    \/ body.recipients = Arr(<<>>)
    \/ body.format \notin {S("csv"), S("xlsx"), S("json"), S("pdf")}
    \/ \E k \in 1..Len(body.recipients[2]) : ~emailRegexTest(body.recipients[2][k])

PostInvalid(r) ==
    /\ req[r].kind = "SchedulePOST"
    /\ req[r].pc = "done"
    /\ req[r].body # NoValue
    /\ ClaimedInvalid(req[r].body[1])

C3_InvalidRejected ==
    \A r \in Slots :
        PostInvalid(r) =>
            /\ req[r].status = 400
            /\ ~req[r].wrote
            /\ req[r].result = NoValue

\* a body with a recipient that fails the pattern was rejected, after an earlier
\* POST of the tenant created its 20th schedule
C3_Witness ==
    \E r \in Slots :
        /\ PostInvalid(r)
        /\ req[r].body[1].recipients = Arr(<<GoodEmail, NoDotEmail>>)
        /\ req[r].status = 400
        /\ CountSchedules("t1") = 20

(***************************************************************************)
(* C4: a GET by an authenticated requester that finds the preset answers   *)
(* 403 exactly when the preset is not public and its createdBy is not the  *)
(* requester; otherwise it answers 200 with the preset.                    *)
(***************************************************************************)
GetFound(r) ==
    /\ req[r].kind = "PresetGET"
    /\ req[r].pc = "done"
    /\ req[r].existing # NoValue

C4_GetAuthorization ==
    \A r \in Slots :
        GetFound(r) =>
            LET preset == req[r].existing[1]
                denied == ~preset.isPublic /\ preset.createdBy # req[r].user
            IN  /\ req[r].user # NoUser
                /\ preset.id = req[r].id
                /\ (req[r].status = 403) <=> denied
                /\ ~denied =>
                      /\ req[r].status = 200
                      /\ req[r].result # NoValue
                      /\ \A f \in DOMAIN preset \ {"filterConfig"} :
                             req[r].result[1][f] = preset[f]
                      /\ JSONstringify(req[r].result[1].filterConfig)
                             = preset.filterConfig

\* a user who is not the owner got preset 1 after the owner's PATCH made it public
C4_Witness ==
    \E r \in Slots :
        /\ GetFound(r) /\ req[r].user = "u2" /\ req[r].id = 1
        /\ req[r].existing[1].isPublic
        /\ req[r].status = 200

(***************************************************************************)
(* C5: a preset is modified or deleted only by a PATCH or DELETE of the    *)
(* user who is its createdBy; a PATCH or DELETE of any other user that     *)
(* finds the preset is answered 403, public or not, and writes nothing.    *)
(***************************************************************************)
NotOwner(r) ==
    /\ req[r].kind \in {"PresetPATCH", "PresetDELETE"}
    /\ req[r].pc = "done"
    /\ req[r].existing # NoValue
    /\ req[r].existing[1].createdBy # req[r].user

C5_NotOwnerRejected ==
    \A r \in Slots : NotOwner(r) => req[r].status = 403 /\ ~req[r].wrote

C5_ChangedByOwner ==
    \A i \in DOMAIN presets :
        (i \notin DOMAIN presets' \/ presets'[i] # presets[i]) =>
            \E r \in Slots :
                /\ req[r].kind \in {"PresetPATCH", "PresetDELETE"}
                /\ req[r].id = i
                /\ req[r].user = presets[i].createdBy
                /\ req'[r] # req[r]

C5_OnlyOwnerWrites == [][C5_ChangedByOwner]_vars /\ []C5_NotOwnerRejected

\* a user who is not the owner was refused on a public preset, which is still
\* there, after the owner deleted the other one
C5_Witness ==
    \E r \in Slots :
        /\ NotOwner(r) /\ req[r].existing[1].isPublic /\ req[r].status = 403
        /\ req[r].id \in DOMAIN presets
        /\ \E id \in PresetIds : id \notin DOMAIN presets

(***************************************************************************)
(* C6: no two distinct presets of one tenant and one creator have the same *)
(* name, after any PATCH requests, interleaved or not.                     *)
(***************************************************************************)
C6_UniqueNames ==
    \A i \in DOMAIN presets : \A j \in DOMAIN presets :
        (/\ i # j
         /\ presets[i].tenantId = presets[j].tenantId
         /\ presets[i].createdBy = presets[j].createdBy)
            => presets[i].name # presets[j].name

(***************************************************************************)
(* C7: a PATCH of the owner that changes the name to one another preset of *)
(* the same creator and tenant has is answered 409 and changes no field.   *)
(***************************************************************************)
NameTaken(r) ==
    /\ req[r].id \in DOMAIN presets
    /\ req[r].body # NoValue
    /\ req[r].body[1].name # Undef
    /\ req[r].body[1].name # presets[req[r].id].name
    /\ \E i \in DOMAIN presets :
          /\ i # req[r].id
          /\ presets[i].tenantId = presets[req[r].id].tenantId
          /\ presets[i].createdBy = presets[req[r].id].createdBy
          /\ presets[i].name = req[r].body[1].name

C7_ConflictStep ==
    \A r \in Slots :
        (/\ req[r].kind = "PresetPATCH"
         /\ req[r].pc \in {"findFirst", "update"}
         /\ req'[r].pc = "done"
         /\ req'[r].status # 500
         /\ NameTaken(r))
            => req'[r].status = 409 /\ presets' = presets

C7_ConflictRejected == [][C7_ConflictStep]_vars

\* the permissions the handlers name
Permissions == {"admin:reports:generate", "admin:users:export"}

Authenticated(r) == req[r].kind # "idle" /\ req[r].user # NoUser

LacksPermission(r) ==
    Authenticated(r) /\ \A p \in Permissions : ~hasPermission(req[r].user, p)

RateLimited(r) ==
    req[r].kind # "idle" /\ ~rateLimit(Identifier(req[r].header)).success

Answered(r) == req[r].pc = "done"

\* C8: on every endpoint (report generation, export schedules, filter presets)
\* a request of an authenticated user who lacks the permission never writes to
\* the store and, unless the rate limiter rejected it (429) or a call threw
\* (500), is answered 403.
C8_PermissionRequired ==
    \A r \in Slots :
        LacksPermission(r) =>
            /\ ~req[r].wrote
            /\ (Answered(r) /\ req[r].status \notin {429, 500}) => req[r].status = 403

\* C9: on every endpoint a request whose identifier has exceeded the rate limit
\* performs no store read and no store write and, unless a call threw (500),
\* is answered 429.
C9_RateLimited ==
    \A r \in Slots :
        RateLimited(r) =>
            /\ ~req[r].read
            /\ ~req[r].wrote
            /\ (Answered(r) /\ req[r].status # 500) => req[r].status = 429

Unauthenticated(r) ==
    req[r].kind \in ScheduleKinds \cup PresetKinds /\ req[r].user = NoUser

\* C10, as stated: every export-schedule and filter-preset handler answers a
\* request without an authenticated user id with 401 (500 if a call threw) and
\* reads no protected row and writes nothing.
C10_Unauthenticated401 ==
    \A r \in Slots :
        Unauthenticated(r) =>
            /\ ~req[r].read
            /\ ~req[r].wrote
            /\ (Answered(r) /\ req[r].status # 500) => req[r].status = 401

\* C10, amended: every export-schedule and filter-preset handler answers a
\* request without an authenticated user id with 401, except that an
\* export-schedule handler answers 429 when the identifier has exceeded the
\* rate limit, which it checks first (and 500 if a call threw); in every case
\* the request reads no protected row and writes nothing.
C10_UnauthenticatedRejected ==
    \A r \in Slots :
        Unauthenticated(r) =>
            /\ ~req[r].read
            /\ ~req[r].wrote
            /\ (Answered(r) /\ req[r].status # 500) =>
                   req[r].status = IF req[r].kind \in ScheduleKinds /\ RateLimited(r)
                                     THEN 429 ELSE 401

\* an export-schedule request without a session, within the rate limit, has
\* been answered 401
C10_Witness ==
    \E r \in Slots :
        /\ Unauthenticated(r)
        /\ req[r].kind \in ScheduleKinds
        /\ ~RateLimited(r)
        /\ Answered(r)
        /\ req[r].status = 401

(***************************************************************************)
(* C11: an exception raised by a call made inside a handler never leaves   *)
(* the handler: the request ends with the 500 of the handler's catch block *)
(* and its fixed message, not the exception's; the only step in between is *)
(* the inner catch of report generation.                                   *)
(***************************************************************************)
C11_ExceptionsCaught ==
    \A r \in Slots :
        req[r].threw # <<>> =>
            /\ req[r].pc \in {"done", "failExecution"}
            /\ req[r].pc = "failExecution" =>
                   req[r].kind = "ReportPOST" /\ req[r].status = 0
            /\ req[r].pc = "done" =>
                   /\ req[r].status = 500
                   /\ req[r].result = Some([error |-> FailedMessage(req[r].kind)])
                   /\ req[r].result[1].error # ErrorMessage

\* a report generation whose report update threw, and then the update of its
\* inner catch too, was answered 500
C11_Witness ==
    \E r \in Slots :
        /\ req[r].threw = <<"updateReport", "failExecution">>
        /\ req[r].pc = "done"
        /\ req[r].status = 500

(***************************************************************************)
(* C12, as stated: when a step of report generation after the creation of  *)
(* the execution record fails, the record has status 'failed', an error    *)
(* message and a completion time when the request is answered, and the     *)
(* answer is 500.                                                          *)
(***************************************************************************)
InnerSteps == {"findMany", "updateExecution", "updateReport"}

InnerFailed(r) ==
    /\ req[r].kind = "ReportPOST"
    /\ req[r].pc = "done"
    /\ req[r].threw # <<>>
    /\ req[r].threw[1] \in InnerSteps

FailureRecorded(r) ==
    LET execution == reportExecutions[req[r].data[1]] IN
    /\ execution.status = "failed"
    /\ execution.errorMessage \in {S(ErrorMessage), S("Unknown error")}
    /\ execution.completedAt # Null

C12_FailureRecorded ==
    \A r \in Slots :
        InnerFailed(r) => req[r].status = 500 /\ FailureRecorded(r)

\* C12, amended: when a step of report generation after the creation of the
\* execution record fails, the inner catch calls the update of the record to
\* 'failed' with an error message and a completion time, and the answer is 500;
\* the record holds the failure when the request is answered unless that update
\* threw as well, and then the record is left as the failed step found it.
C12_FailureRecordedUnlessUpdateThrows ==
    \A r \in Slots :
        InnerFailed(r) =>
            /\ req[r].status = 500
            /\ IF Len(req[r].threw) = 1
                 THEN FailureRecorded(r)
                 ELSE /\ req[r].threw[2] = "failExecution"
                      /\ reportExecutions[req[r].data[1]].status =
                            IF req[r].threw[1] = "updateReport"
                              THEN "completed" ELSE "generating"
                      /\ reportExecutions[req[r].data[1]].errorMessage = Null

\* the fetch of the users threw and the record holds the failure
C12_Witness ==
    \E r \in Slots :
        /\ InnerFailed(r)
        /\ req[r].threw = <<"findMany">>
        /\ FailureRecorded(r)
        /\ req[r].status = 500

(***************************************************************************)
(* C13: the step of a PATCH with action 'toggleActive' that is answered    *)
(* 200 leaves every schedule whose id is in scheduleIds with isActive      *)
(* false, whatever the row's isActive was, changes no other field and no   *)
(* other row.                                                              *)
(***************************************************************************)
ToggleStep(r) ==
    /\ req[r].kind = "SchedulePATCH"
    /\ req[r].pc = "updateMany"
    /\ req'[r].pc = "done"
    /\ req'[r].status = 200

C13_ToggleStep ==
    \A r \in Slots :
        ToggleStep(r) =>
            /\ req[r].body[1].action = S("toggleActive")
            /\ DOMAIN schedules' = DOMAIN schedules
            /\ \A i \in DOMAIN schedules :
                 IF i \in Range(req[r].body[1].scheduleIds[2])
                   THEN schedules'[i] = [schedules[i] EXCEPT !.isActive = B(FALSE)]
                   ELSE schedules'[i] = schedules[i]

ReportParsed(r) ==
    /\ req[r].kind = "ReportPOST"
    /\ req[r].pc = "done"
    /\ req[r].body # NoValue

C15_ContentTypeByFormat ==
    \A r \in Slots :
        ReportParsed(r) =>
            LET format == req[r].body[1].format IN
            /\ format \notin {Undef, S("pdf"), S("xlsx"), S("csv"), S("json")}
                   => req[r].status = 400
            /\ req[r].status = 200 =>
                   /\ req[r].result # NoValue
                   /\ req[r].result[1].disposition = "attachment"
                   /\ format \in {Undef, S("pdf")} =>
                          req[r].result[1].contentType = "text/html"
                   /\ format = S("xlsx") =>
                          req[r].result[1].contentType = "text/tab-separated-values"
                   /\ format = S("csv") => req[r].result[1].contentType = "text/csv"
                   /\ format = S("json") =>
                          req[r].result[1].contentType = "application/json"

\* a generation without a format was answered 200 as pdf
C15_Witness ==
    \E r \in Slots :
        /\ ReportParsed(r)
        /\ req[r].body[1].format = Undef
        /\ req[r].status = 200
        /\ req[r].result[1].contentType = "text/html"
        /\ req[r].result[1].suffix = ".html"

(***************************************************************************)
(* C14: read back as CSV, the text generateCSVReport returns has, after    *)
(* the header line, one line per data row; every field of the line is      *)
(* enclosed in double quotes, with each double quote of the value doubled; *)
(* the fields are the row's values for the column descriptors, in column   *)
(* order, and the empty string where the row has no value.                 *)
(***************************************************************************)
RECURSIVE SplitLines(_, _)
SplitLines(s, line) ==
    IF s = <<>> THEN (IF line = <<>> THEN <<>> ELSE <<line>>)
    ELSE IF Head(s) = Newline THEN <<line>> \o SplitLines(Tail(s), <<>>)
    ELSE SplitLines(Tail(s), Append(line, Head(s)))

\* the characters after an opening quote: the value up to the closing quote, a
\* doubled quote standing for one quote, and what follows the closing quote
RECURSIVE ReadQuoted(_, _)
ReadQuoted(s, value) ==
    IF s = <<>> THEN [ok |-> FALSE]
    ELSE IF Head(s) # Quote THEN ReadQuoted(Tail(s), Append(value, Head(s)))
    ELSE IF Len(s) >= 2 /\ s[2] = Quote
           THEN ReadQuoted(Tail(Tail(s)), Append(value, Quote))
    ELSE [ok |-> TRUE, value |-> value, rest |-> Tail(s)]

\* the fields of a line all of whose fields are quoted
RECURSIVE ReadLine(_)
ReadLine(s) ==
    IF s = <<>> THEN [ok |-> TRUE, fields |-> <<>>]
    ELSE IF Head(s) # Quote THEN [ok |-> FALSE]
    ELSE LET field == ReadQuoted(Tail(s), <<>>) IN
         IF ~field.ok THEN [ok |-> FALSE]
         ELSE IF field.rest = <<>> THEN [ok |-> TRUE, fields |-> <<field.value>>]
         ELSE IF Head(field.rest) # Comma \/ Len(field.rest) = 1 THEN [ok |-> FALSE]
         ELSE LET others == ReadLine(Tail(field.rest)) IN
              IF ~others.ok THEN [ok |-> FALSE]
              ELSE [ok |-> TRUE, fields |-> <<field.value>> \o others.fields]

FieldText(value) == IF value \in {Null, Undef} THEN <<>> ELSE value[2]

C14_CsvQuoted ==
    call.fn = "generateCSVReport" =>
        LET columns == call.reportData.columns
            rows == call.reportData.rows
            lines == SplitLines(call.ret, <<>>)
            header == IF Len(columns) > 0 THEN 1 ELSE 0
        IN  /\ Len(lines) = header + Len(rows)
            /\ \A k \in DOMAIN rows :
                 LET line == ReadLine(lines[header + k]) IN
                 /\ line.ok
                 /\ line.fields = [j \in DOMAIN columns |->
                                      FieldText(RowGet(rows[k], columns[j].name))]

\* two rows under the columns name and email: a name of two quotes beside an
\* email with a comma, and a row without a name
C14_Witness ==
    /\ call.fn = "generateCSVReport"
    /\ Len(call.reportData.columns) = 2
    /\ call.reportData.columns[1].name = "name"
    /\ call.reportData.columns[2].name = "email"
    /\ Len(call.reportData.rows) = 2
    /\ call.reportData.rows[1].name = T(<<Quote, Quote>>)
    /\ call.reportData.rows[1].email = T(<<"b", Comma>>)
    /\ call.reportData.rows[2].name = Undef

(***************************************************************************)
(* C19: a report generation answered 429, 403, 404 or 400 has created no   *)
(* execution record, and the step that answers it leaves every report row  *)
(* (generationCount and lastGeneratedAt included) and every execution      *)
(* record as they were.                                                    *)
(***************************************************************************)
Rejections == {429, 403, 404, 400}

C19_RejectedWroteNothing ==
    \A r \in Slots :
        (req[r].kind = "ReportPOST" /\ req[r].pc = "done" /\ req[r].status \in Rejections)
            => ~req[r].wrote

C19_RejectingStep ==
    \A r \in Slots :
        (req'[r].kind = "ReportPOST" /\ req'[r].status \in Rejections /\ req[r].pc # "done")
            => reports' = reports /\ reportExecutions' = reportExecutions

C19_RejectionLeavesNoTrace == [][C19_RejectingStep]_vars /\ []C19_RejectedWroteNothing

\* a request naming an unknown format was answered 400 after an earlier request
\* generated report 1 once
C19_Witness ==
    \E r \in Slots :
        /\ req[r].kind = "ReportPOST"
        /\ req[r].pc = "done"
        /\ req[r].status = 400
        /\ req[r].id = 1
        /\ reports[1].generationCount = 1
        /\ DOMAIN reportExecutions = {1}

(***************************************************************************)
(* C17: every click on a saved-view button calls onViewChange exactly once *)
(* with the view's name and its role: CLIENT for clients, TEAM for team,   *)
(* ADMIN for admins and undefined for all, whichever view is active; after *)
(* n clicks onViewChange has been called n times, in the order of the      *)
(* clicks.                                                                 *)
(***************************************************************************)
ExpectedCall(viewName) ==
    CASE viewName = "clients" -> <<S("clients"), S("CLIENT")>>
      [] viewName = "team" -> <<S("team"), S("TEAM")>>
      [] viewName = "admins" -> <<S("admins"), S("ADMIN")>>
      [] viewName = "all" -> <<S("all"), Undef>>

C17_OneCallPerClick ==
    views # NotMounted =>
        /\ Len(views.onViewChange) = Len(views.clicks)
        /\ \A i \in DOMAIN views.clicks :
               views.onViewChange[i] = ExpectedCall(views.clicks[i])

\* three clicks, the first two on the button of the active view and the last on
\* the button of the view without a role
C17_Witness ==
    /\ views # NotMounted
    /\ views.activeView = "clients"
    /\ views.clicks = <<"clients", "clients", "all">>
    /\ Len(views.onViewChange) = 3

Unsettled == {i \in DOMAIN card.onRefresh : card.onRefresh[i] = "pending"}

Rejected == {i \in DOMAIN card.onRefresh : card.onRefresh[i] = "rejected"}

SatisfiesAll(user, filters) ==
    /\ filters.search # <<>> => MatchesSearch(user, filters.search)
    /\ filters.role # Null => user.role = filters.role
    /\ filters.status # Null => user.status = filters.status

C16_FilteredCount ==
    hook # NotMounted =>
        /\ hook.stats.filteredCount =
               Cardinality({i \in DOMAIN hook.users : SatisfiesAll(hook.users[i], hook.filters)})
        /\ hook.stats.totalCount = Len(hook.users)

\* all three filters are set; one of two users passes the search and the role
\* but not the status, the other passes all three
C16_Witness ==
    /\ hook # NotMounted
    /\ hook.filters = [search |-> <<"a">>, role |-> S("CLIENT"), status |-> S("ACTIVE")]
    /\ hook.stats = [totalCount |-> 2, filteredCount |-> 1, isFiltered |-> TRUE]
    /\ hook.users[1].status = S("INACTIVE")
    /\ hook.users[1].role = S("CLIENT")
    /\ MatchesSearch(hook.users[1], <<"a">>)

(***************************************************************************)
(* C21: after clearFilters, whatever updateFilter calls came before it,    *)
(* the filtered users are the whole collection, filteredCount equals       *)
(* totalCount and isFiltered is false.                                     *)
(***************************************************************************)
C21_ClearShowsAll ==
    (hook # NotMounted /\ hook.last = "clearFilters") =>
        /\ hook.filteredUsers = hook.users
        /\ hook.stats.filteredCount = hook.stats.totalCount
        /\ ~hook.stats.isFiltered

\* clearFilters was called with all three filters set, over two users none of
\* whom passed them
C21_Witness ==
    /\ hook # NotMounted
    /\ hook.last = "clearFilters"
    /\ hook.before = [search |-> <<"a">>, role |-> S("ADMIN"), status |-> S("INACTIVE")]
    /\ filterUsers(hook.users, hook.before) = <<>>
    /\ hook.stats = [totalCount |-> 2, filteredCount |-> 2, isFiltered |-> FALSE]

(***************************************************************************)
(* C22: when a report generation that created an execution record has been *)
(* answered, and at most one call of the handler threw, the record is      *)
(* 'completed' or 'failed': it is not left 'generating'.                   *)
(***************************************************************************)
C22_NotLeftGenerating ==
    \A r \in Slots :
        (/\ req[r].kind = "ReportPOST"
         /\ req[r].pc = "done"
         /\ req[r].data # NoValue
         /\ Len(req[r].threw) <= 1)
            => reportExecutions[req[r].data[1]].status \in {"completed", "failed"}

\* the update of the record to 'completed' threw, it was the only call that threw,
\* and the record is 'failed'
C22_Witness ==
    \E r \in Slots :
        /\ req[r].kind = "ReportPOST"
        /\ req[r].pc = "done"
        /\ req[r].threw = <<"updateExecution">>
        /\ reportExecutions[req[r].data[1]].status = "failed"

(***************************************************************************)
(* C23: an execution record that is 'completed' stays 'completed' in every *)
(* step: no request marks it 'failed' afterwards.                          *)
(***************************************************************************)
C23_CompletedStep ==
    \A id \in DOMAIN reportExecutions :
        reportExecutions[id].status = "completed"
            => id \in DOMAIN reportExecutions' /\ reportExecutions'[id].status = "completed"

C23_CompletedIsFinal == [][C23_CompletedStep]_vars

(***************************************************************************)
(* C24: in every step, also of interleaved report generations, the         *)
(* generationCount of each report grows by the number of generations of    *)
(* that report answered 200 in the step; a generation answered with any    *)
(* other status, and every other step, leaves it as it was.                *)
(***************************************************************************)
Answered200(i) ==
    {r \in Slots : /\ req[r].pc # "done"
                   /\ req'[r].pc = "done"
                   /\ req'[r].kind = "ReportPOST"
                   /\ req'[r].status = 200
                   /\ req'[r].id = i}

C24_CountStep ==
    /\ DOMAIN reports' = DOMAIN reports
    /\ \A i \in DOMAIN reports :
           reports'[i].generationCount =
               reports[i].generationCount + Cardinality(Answered200(i))

C24_CountIsAnswered200 == [][C24_CountStep]_vars

\* two generations of report 1 that ran side by side were both answered 200 and
\* the report counts two
C24_Witness ==
    /\ \A r \in {1, 2} : /\ req[r].kind = "ReportPOST"
                         /\ req[r].pc = "done"
                         /\ req[r].status = 200
                         /\ req[r].id = 1
    /\ reports[1].generationCount = 2

(***************************************************************************)
(* C25: a step of a schedule PATCH or DELETE request leaves every schedule *)
(* whose tenantId is not the tenant of the requesting user, and every      *)
(* execution of such a schedule, as it was, whatever ids the request       *)
(* names.                                                                  *)
(***************************************************************************)
C25_TenantStep ==
    \A r \in Slots :
        req[r].kind \in {"SchedulePATCH", "ScheduleDELETE"} =>
            \A i \in DOMAIN schedules :
                schedules[i].tenantId # UserTenant(req[r].user) =>
                    /\ i \in DOMAIN schedules'
                    /\ schedules'[i] = schedules[i]
                    /\ \A e \in executions : e.scheduleId = i => e \in executions'

C25_OtherTenantsUntouched == [][C25_TenantStep]_vars

(***************************************************************************)
(* C26: a report generation by a caller of some tenant is answered with    *)
(* report content only when the report's tenantId is the caller's tenant;  *)
(* the rows of the answer are never the users of another tenant.           *)
(***************************************************************************)
C26_OwnTenantOnly ==
    \A r \in Slots :
        (/\ req[r].kind = "ReportPOST"
         /\ req[r].pc = "done"
         /\ req[r].status = 200
         /\ UserTenant(req[r].user) # NoTenant)
            => /\ req[r].existing[1].tenantId = UserTenant(req[r].user)
               /\ \A u \in req[r].result[1].rows : TenantOf(u) = UserTenant(req[r].user)

(***************************************************************************)
(* C30: the schedule created by a POST holds the dayOfWeek and dayOfMonth  *)
(* of the request for every value given, 0 included, and null only when    *)
(* the field is absent; its time is '09:00' and its isActive is true only  *)
(* when the field is absent.                                               *)
(***************************************************************************)
C30_GivenValuesStored ==
    \A r \in Slots :
        (req[r].kind = "SchedulePOST" /\ req[r].pc = "done" /\ req[r].status = 200) =>
            LET body == req[r].body[1]
                schedule == schedules[req[r].result[1]]
            IN  /\ schedule.dayOfWeek = Default(body.dayOfWeek, Null)
                /\ schedule.dayOfMonth = Default(body.dayOfMonth, Null)
                /\ schedule.time = Default(body.time, S("09:00"))
                /\ schedule.isActive = Default(body.isActive, B(TRUE))

(***************************************************************************)
(* C27: a submit event on a client form whose name is blank, whose email   *)
(* is blank, or whose email does not match the email pattern sends no      *)
(* request, sets the error message of a rule the form breaks, leaves       *)
(* isSubmitting false and calls neither onSuccess nor onClose.             *)
(***************************************************************************)
Blank(s) == \A k \in DOMAIN s : s[k] = " "

BrokenRules(formData) ==
    (IF Blank(formData.name) THEN {S("Client name is required")} ELSE {})
    \cup (IF Blank(formData.email) THEN {S("Email is required")} ELSE {})
    \cup (IF ~emailRegexTest(formData.email) THEN {S("Invalid email format")} ELSE {})

C27_InvalidSubmitStep ==
    (/\ form # NotMounted
     /\ form' # NotMounted
     /\ form'.submits = form.submits + 1
     /\ BrokenRules(form.formData) # {})
        => /\ form'.submission.sent = <<>>
           /\ form'.submission.called = <<>>
           /\ form'.error \in BrokenRules(form.formData)
           /\ ~form'.isSubmitting
           /\ form'.pc = "idle"

C27_InvalidFormNotSent == [][C27_InvalidSubmitStep]_vars

\* a form with a name and an email without a dot after the @ was submitted:
\* nothing was sent and the error names the format
C27_Witness ==
    /\ form # NotMounted
    /\ form.submits = 1
    /\ form.formData = [name |-> <<" ", "A", " ">>, email |-> NoDotEmail]
    /\ form.error = S("Invalid email format")
    /\ form.submission = NoSubmission
    /\ ~form.isSubmitting

(***************************************************************************)
(* C28: in a submission of a valid client form, isSubmitting is true       *)
(* exactly from the sending of the request until handleSubmit has dealt    *)
(* with its outcome (an ok response, a response that is not ok, a throw),  *)
(* and it is false again afterwards: given that the awaited promises       *)
(* settle, a form that is submitting always comes to be not submitting.    *)
(***************************************************************************)
Submitting == form # NotMounted /\ form.isSubmitting

C28_SubmittingWhileAwaiting ==
    form # NotMounted =>
        /\ form.isSubmitting <=> form.pc \in {"fetch", "errorData", "result"}
        /\ form.isSubmitting => form.submission.valid /\ Len(form.submission.sent) = 1
        /\ (form.pc = "idle" /\ form.submission.response # "none") => ~form.isSubmitting

C28_SubmittingEnds == []C28_SubmittingWhileAwaiting /\ (Submitting ~> ~Submitting)

\* the request of a valid form threw and the form is not submitting any more
C28_Witness ==
    /\ form # NotMounted
    /\ form.submission.valid
    /\ form.submission.response = "threw"
    /\ form.error = S("Failed to fetch")
    /\ ~form.isSubmitting

(***************************************************************************)
(* C29: when handleSubmit has dealt with the outcome of a submission,      *)
(* onSuccess (with the returned id) and then onClose have each been called *)
(* once, in that order, exactly when the response was ok; when the         *)
(* response was not ok or the request threw, neither has been called and   *)
(* the error message is set.                                               *)
(***************************************************************************)
SubmissionEnds == form # NotMounted /\ form' # NotMounted /\ form.pc # "idle" /\ form'.pc = "idle"

BothCalled(submission) == submission.called = <<<<"onSuccess", submission.result>>, <<"onClose">>>>

NoneCalled(f) == f.submission.called = <<>> /\ f.error # Null

StillAwaiting == (form' # NotMounted /\ form'.pc # "idle") => form'.submission.called = <<>>

C29_EndStep ==
    /\ StillAwaiting
    /\ SubmissionEnds =>
           IF form'.submission.response = "ok"
             THEN BothCalled(form'.submission)
             ELSE NoneCalled(form')

C29_CalledIffOk == [][C29_EndStep]_vars

\* C29, amended: onSuccess (with the returned id) and then onClose are each called
\* once, in that order, exactly when the response is ok and response.json() has
\* returned its body; when the response is not ok, the request throws, or the
\* reading of the body of an ok response throws, neither is called and the error
\* message is set instead.
C29_EndStepRead ==
    /\ StillAwaiting
    /\ SubmissionEnds =>
           IF form'.submission.response = "ok" /\ form'.submission.json = "returned"
             THEN BothCalled(form'.submission)
             ELSE NoneCalled(form')

C29_CalledIffOkAndRead == [][C29_EndStepRead]_vars

\* an ok response whose body was read: onSuccess was called with the id, then onClose
C29_Witness ==
    /\ form # NotMounted
    /\ form.pc = "idle"
    /\ form.submission.response = "ok"
    /\ form.submission.called = <<<<"onSuccess", S("c1")>>, <<"onClose">>>>

====
